---- MODULE Spec2Model ----
(***************************************************************************)
(* A model of the Logseq client of clstb/yalms (pkg/logseq): the transport *)
(* gateway Client.Call, the page resolver and upsert (GetPage, CreatePage, *)
(* UpdatePage), the link extractor, the namespace materializer and content *)
(* rewriter (EnsureLinkedPages), the block writers and Query.              *)
(*                                                                         *)
(* A Go string is a sequence of one-character strings.  A Go error is a    *)
(* sequence of message fragments; the empty sequence is the nil error.     *)
(* Every Go function that talks to the remote store is an operator from a  *)
(* context (the store, the script of what the network does to the next     *)
(* calls, the map iteration orders, the log of calls issued) to a record   *)
(* holding the new context and the function's results.                     *)
(***************************************************************************)
EXTENDS Integers, Sequences, FiniteSets, TLC

VARIABLES store, prev, last, procs

vars == <<store, prev, last, procs>>

-----------------------------------------------------------------------------
(* Bounds of the model.                                                    *)

\* how many of an operation's remote calls the network may disturb
\* (the calls after these are answered faithfully)
MaxScript == 4

\* the number of operations of a behaviour of the specifications that run
\* an operation again and again
MaxRuns == 2

-----------------------------------------------------------------------------
(* Go strings.                                                             *)

NoErr == <<>>

\* s[i:] starts with p
HasPrefixAt(s, i, p) ==
    /\ i >= 1
    /\ i + Len(p) - 1 <= Len(s)
    /\ SubSeq(s, i, i + Len(p) - 1) = p

\* strings.Contains(s, p)
Contains(s, p) == \E i \in 1..(Len(s) + 1) : HasPrefixAt(s, i, p)

RECURSIVE ReplaceFrom(_, _, _, _)
ReplaceFrom(s, i, old, new) ==
    IF i > Len(s) THEN <<>>
    ELSE IF HasPrefixAt(s, i, old)
         THEN new \o ReplaceFrom(s, i + Len(old), old, new)
         ELSE <<s[i]>> \o ReplaceFrom(s, i + 1, old, new)

\* strings.ReplaceAll(s, old, new), old non-empty: the non-overlapping
\* occurrences of old, left to right
ReplaceAll(s, old, new) == ReplaceFrom(s, 1, old, new)

IsSpace(ch) == ch \in {" ", "\t", "\n"}

RECURSIVE TrimLeft(_)
TrimLeft(s) ==
    IF s # <<>> /\ IsSpace(Head(s)) THEN TrimLeft(Tail(s)) ELSE s

RECURSIVE TrimRight(_)
TrimRight(s) ==
    IF s # <<>> /\ IsSpace(s[Len(s)])
    THEN TrimRight(SubSeq(s, 1, Len(s) - 1))
    ELSE s

\* strings.TrimSpace(s)
TrimSpace(s) == TrimRight(TrimLeft(s))

RECURSIVE SplitFrom(_, _, _)
SplitFrom(s, i, cur) ==
    IF i > Len(s) THEN <<cur>>
    ELSE IF s[i] = "/"
         THEN <<cur>> \o SplitFrom(s, i + 1, <<>>)
         ELSE SplitFrom(s, i + 1, Append(cur, s[i]))

\* strings.Split(s, "/"): always at least one part
Split(s) == SplitFrom(s, 1, <<>>)

\* the elements of a sequence, first occurrences only, in order
RECURSIVE Dedup(_, _)
Dedup(xs, seen) ==
    IF xs = <<>> THEN <<>>
    ELSE IF Head(xs) \in seen
         THEN Dedup(Tail(xs), seen)
         ELSE <<Head(xs)>> \o Dedup(Tail(xs), seen \cup {Head(xs)})

Range(f) == {f[i] : i \in DOMAIN f}

-----------------------------------------------------------------------------
(* The link extractor (utils.go).                                          *)

\* the length of the longest run of characters other than cl starting at i
RECURSIVE RunLen(_, _, _)
RunLen(s, i, cl) ==
    IF i > Len(s) \/ s[i] = cl THEN 0 ELSE 1 + RunLen(s, i + 1, cl)

\* regexp FindAllStringSubmatch of  op op ([^cl]+) cl cl : the captured
\* groups of the leftmost non-overlapping matches.  The class excludes cl,
\* so a match at i takes the whole run that follows the opening pair and
\* needs the closing pair right after it.
RECURSIVE FindAllFrom(_, _, _, _)
FindAllFrom(s, i, op, cl) ==
    IF i > Len(s) THEN <<>>
    ELSE LET n == RunLen(s, i + 2, cl)
             e == i + 2 + n
         IN IF /\ HasPrefixAt(s, i, <<op, op>>)
               /\ n >= 1
               /\ HasPrefixAt(s, e, <<cl, cl>>)
            THEN <<SubSeq(s, i + 2, e - 1)>> \o FindAllFrom(s, e + 2, op, cl)
            ELSE FindAllFrom(s, i + 1, op, cl)

RECURSIVE UniqueTrimmedMutKeepAll(_, _)
\* the loop keeping every occurrence
UniqueTrimmedMutKeepAll(matches, unique) ==
    IF matches = <<>> THEN <<>>
    ELSE IF TrimSpace(Head(matches)) # <<>>
         THEN <<TrimSpace(Head(matches))>>
              \o UniqueTrimmedMutKeepAll(Tail(matches), unique)
         ELSE UniqueTrimmedMutKeepAll(Tail(matches), unique)

\* the loop of extractLinks and extractBlockRefs: trim, drop the empty,
\* keep the first occurrence
RECURSIVE UniqueTrimmed(_, _)
UniqueTrimmed(matches, unique) ==
    IF matches = <<>> THEN <<>>
    ELSE LET name == TrimSpace(Head(matches))
         IN IF name # <<>> /\ name \notin unique
            THEN <<name>> \o UniqueTrimmed(Tail(matches), unique \cup {name})
            ELSE UniqueTrimmed(Tail(matches), unique)

extractLinks(content) == UniqueTrimmed(FindAllFrom(content, 1, "[", "]"), {})

extractBlockRefs(content) == UniqueTrimmed(FindAllFrom(content, 1, "(", ")"), {})

-----------------------------------------------------------------------------
(* Response bodies, as the JSON text they stand for:                       *)
(*   [t |-> "null"]                    null                                 *)
(*   [t |-> "list", items |-> <<..>>]  an array; items = <<>> is the text []*)
(*   [t |-> "atom", a |-> "x"]         a number, a boolean or an opaque map *)
(*   [t |-> "str", s |-> chars]        a JSON string                        *)
(*   [t |-> "obj", uuid, name, content] an object with well-typed fields    *)
(*   [t |-> "errobj", kind, msg]       an object with an "error" field that *)
(*                                     is a string (kind "str") or a number *)
(*   [t |-> "badobj"]                  an object with a wrongly typed field *)
(*   [t |-> "text"]                    not JSON                             *)

JNull == [t |-> "null"]
JList(items) == [t |-> "list", items |-> items]
JAtom(a) == [t |-> "atom", a |-> a]
JStr(s) == [t |-> "str", s |-> s]
JObj(uuid, name, content) ==
    [t |-> "obj", uuid |-> uuid, name |-> name, content |-> content]
JErr(kind, msg) == [t |-> "errobj", kind |-> kind, msg |-> msg]
JBad == [t |-> "badobj"]
JText == [t |-> "text"]
NoBody == [t |-> "nil"]

\* string(resp) == "null", string(resp) == "[]"
IsNullText(body) == body.t = "null"
IsEmptyArrText(body) == body.t = "list" /\ body.items = <<>>

\* a page or a block as the client holds it; nil is the nil pointer
NilEntity == [nil |-> TRUE, uuid |-> <<>>, name |-> <<>>, content |-> <<>>]
Entity(uuid, name, content) ==
    [nil |-> FALSE, uuid |-> uuid, name |-> name, content |-> content]

\* json.Unmarshal(resp, &page) and json.Unmarshal(resp, &block): null leaves
\* the zero value, an object fills the fields it has, a wrongly typed field
\* or any other JSON value is an error
UnmarshalEntity(body) ==
    CASE body.t = "obj" ->
            [ok |-> TRUE, v |-> Entity(body.uuid, body.name, body.content)]
      [] body.t \in {"null", "errobj"} ->
            [ok |-> TRUE, v |-> Entity(<<>>, <<>>, <<>>)]
      [] OTHER -> [ok |-> FALSE, v |-> Entity(<<>>, <<>>, <<>>)]

\* json.Unmarshal(resp, &respUUID) into a string
UnmarshalString(body) ==
    CASE body.t = "str" -> [ok |-> TRUE, v |-> body.s]
      [] body.t = "null" -> [ok |-> TRUE, v |-> <<>>]
      [] OTHER -> [ok |-> FALSE, v |-> <<>>]

-----------------------------------------------------------------------------
(* The transport gateway.  A wire response is what the HTTP layer hands to *)
(* Client.Call: whether the request got an answer at all, the status and   *)
(* the body.                                                               *)

Wire(net, status, body) == [net |-> net, status |-> status, body |-> body]

\* resty's Response.IsError: StatusCode() > 399
IsError(status) == status > 399

\* the errCheck of Client.Call: the "error" field when the body unmarshals
\* into struct{Error string}, else no verdict
ErrCheck(body) ==
    CASE body.t = "errobj" /\ body.kind = "str" -> [ok |-> TRUE, error |-> body.msg]
      [] body.t = "errobj" -> [ok |-> FALSE, error |-> ""]
      [] body.t \in {"obj", "badobj", "null"} -> [ok |-> TRUE, error |-> ""]
      [] OTHER -> [ok |-> FALSE, error |-> ""]

\* Client.Call on the wire response w: [body, err]; NoBody is the nil slice
Call(w) ==
    IF ~w.net
    THEN [body |-> NoBody, err |-> <<"request failed: ", "transport">>]
    ELSE IF IsError(w.status)
    THEN [body |-> NoBody,
          err |-> <<"api error: ", "body", " (status: ", ToString(w.status), ")">>]
    ELSE IF ErrCheck(w.body).ok /\ ErrCheck(w.body).error # ""
    THEN [body |-> NoBody, err |-> <<"api error: ", ErrCheck(w.body).error>>]
    ELSE [body |-> w.body, err |-> NoErr]

-----------------------------------------------------------------------------
(* Property mappings (map[string]any): functions from keys to values.  A   *)
(* value is a Go string, [t |-> "s", s |-> chars], or anything else,       *)
(* [t |-> "x", x |-> chars] (x is how the value would print).              *)

SVal(s) == [t |-> "s", s |-> s]
XVal(x) == [t |-> "x", x |-> x]

NoProps == [k \in {} |-> SVal(<<>>)]

\* the type assertion v.(string)
IsStringMutAny(v) == TRUE
IsString(v) == v.t = "s"

\* the text of a value: the string itself, or what a non-string value
\* prints as (the code reads it only after IsString)
StringOf(v) == IF v.t = "s" THEN v.s ELSE v.x

\* the orders in which a range statement may visit the keys of a map
KeyOrders == {<<"k1", "k2">>, <<"k2", "k1">>}

\* the property keys of the model, in the order a range statement visits
\* them when no other order is given, and how each is spelled
KeySeq == <<"k1", "k2", "aB", "a_b", "Ab", "ab">>

Spelling ==
    ("k1" :> <<"k", "1">>) @@ ("k2" :> <<"k", "2">>)
    @@ ("aB" :> <<"a", "B">>) @@ ("a_b" :> <<"a", "_", "b">>)
    @@ ("Ab" :> <<"A", "b">>) @@ ("ab" :> <<"a", "b">>)

\* the key spelled s
KeyOf(s) == CHOOSE k \in DOMAIN Spelling : Spelling[k] = s

RECURSIVE Filter(_, _)
Filter(xs, S) ==
    IF xs = <<>> THEN <<>>
    ELSE IF Head(xs) \in S
         THEN <<Head(xs)>> \o Filter(Tail(xs), S)
         ELSE Filter(Tail(xs), S)

-----------------------------------------------------------------------------
(* The remote store.  It holds pages [name, uuid], blocks [uuid, content,  *)
(* parent], the properties upserted so far, the next identifier it will    *)
(* assign, and how it words "no match" (null or []).                       *)

Digits == <<"0", "1", "2", "3", "4", "5", "6", "7", "8", "9">>

RECURSIVE Decimal(_)
Decimal(n) ==
    IF n < 10 THEN <<Digits[n + 1]>>
    ELSE Decimal(n \div 10) \o <<Digits[(n % 10) + 1]>>

PageUuid(n) == <<"u">> \o Decimal(n)
BlockUuid(n) == <<"b">> \o Decimal(n)

PagesMatching(st, x) == {p \in st.pages : x # <<>> /\ (p.name = x \/ p.uuid = x)}
BlocksMatching(st, x) == {b \in st.blocks : x # <<>> /\ b.uuid = x}
PageNamed(st, n) == {p \in st.pages : p.name = n}

NoMatch(st) == IF st.nomatch = "null" THEN JNull ELSE JList(<<>>)

PageBody(p) == JObj(p.uuid, p.name, <<>>)
BlockBody(b) == JObj(b.uuid, <<>>, b.content)

\* the blocks of page q from the n-th identifier on, oldest first
RECURSIVE PageBlocksFrom(_, _, _)
PageBlocksFrom(st, q, n) ==
    IF n >= st.next THEN <<>>
    ELSE (IF \E b \in st.blocks :
                 b.uuid = BlockUuid(n) /\ b.parent \in {q.uuid, q.name}
          THEN <<BlockBody(CHOOSE b \in st.blocks :
                     b.uuid = BlockUuid(n) /\ b.parent \in {q.uuid, q.name})>>
          ELSE <<>>)
         \o PageBlocksFrom(st, q, n + 1)

\* what the store does with a request and what it answers: [store, body]
Respond(st, m, a, p) ==
    CASE m = "logseq.Editor.getPage" ->
            [store |-> st,
             body |-> IF PagesMatching(st, a[1]) = {} THEN NoMatch(st)
                      ELSE PageBody(CHOOSE q \in PagesMatching(st, a[1]) : TRUE)]
      [] m = "logseq.Editor.createPage" ->
            IF a[1] = <<>> THEN [store |-> st, body |-> JNull]
            ELSE IF PageNamed(st, a[1]) # {}
            THEN [store |-> st,
                  body |-> PageBody(CHOOSE q \in PageNamed(st, a[1]) : TRUE)]
            ELSE LET q == [name |-> a[1], uuid |-> PageUuid(st.next)]
                 IN [store |-> [st EXCEPT
                                  !.pages = @ \cup {q},
                                  !.props = @ \cup {<<q.uuid, k, p[k]>> : k \in DOMAIN p},
                                  !.next = @ + 1],
                     body |-> PageBody(q)]
      [] m = "logseq.Editor.upsertBlockProperty" ->
            [store |-> [st EXCEPT
                          !.props = {t \in @ : ~(t[1] = a[1] /\ t[2] = a[2][1])}
                                    \cup {<<a[1], k, p[k]>> : k \in DOMAIN p}],
             body |-> JNull]
      [] m = "logseq.Editor.getBlock" ->
            [store |-> st,
             body |-> IF BlocksMatching(st, a[1]) = {} THEN JNull
                      ELSE BlockBody(CHOOSE b \in BlocksMatching(st, a[1]) : TRUE)]
      [] m \in {"logseq.Editor.insertBlock", "logseq.Editor.appendBlockInPage"} ->
            IF PagesMatching(st, a[1]) = {} /\ BlocksMatching(st, a[1]) = {}
            THEN [store |-> st, body |-> JNull]
            ELSE LET b == [uuid |-> BlockUuid(st.next), content |-> a[2],
                           parent |-> a[1]]
                 IN [store |-> [st EXCEPT !.blocks = @ \cup {b}, !.next = @ + 1],
                     body |-> BlockBody(b)]
      [] m = "logseq.Editor.insertBatchBlock" ->
            IF \/ PagesMatching(st, a[1]) = {} /\ BlocksMatching(st, a[1]) = {}
               \/ Len(a) < 2
            THEN [store |-> st, body |-> JNull]
            ELSE LET b == [uuid |-> BlockUuid(st.next), content |-> a[2],
                           parent |-> a[1]]
                 IN [store |-> [st EXCEPT !.blocks = @ \cup {b}, !.next = @ + 1],
                     body |-> JList(<<BlockBody(b)>>)]
      [] m = "logseq.Editor.updateBlock" ->
            [store |-> [st EXCEPT
                          !.blocks = {IF b.uuid = a[1]
                                      THEN [b EXCEPT !.content = a[2]] ELSE b
                                      : b \in @},
                          !.props = @ \cup {<<a[1], k, p[k]>> : k \in DOMAIN p}],
             body |-> JNull]
      [] m = "logseq.Editor.renamePage" ->
            [store |-> [st EXCEPT
                          !.pages = {IF q \in PagesMatching(st, a[1])
                                     THEN [q EXCEPT !.name = a[2]] ELSE q :
                                     q \in @}],
             body |-> JNull]
      [] m = "logseq.Editor.getPageBlocksTree" ->
            [store |-> st,
             body |-> IF PagesMatching(st, a[1]) = {} THEN JNull
                      ELSE JList(PageBlocksFrom(
                               st, CHOOSE q \in PagesMatching(st, a[1]) : TRUE, 1))]
      [] OTHER -> [store |-> st, body |-> NoMatch(st)]

-----------------------------------------------------------------------------
(* The context of a run of client code: the store, the script (what the    *)
(* network does to the next remote calls: "ok" lets the store answer, a    *)
(* wire response replaces the answer and the store never sees the request),*)
(* the orders the next range statements visit map keys in, and the log of  *)
(* the remote calls issued so far.                                         *)

Ctx(st, script, orders) ==
    [store |-> st, script |-> script, orders |-> orders, log |-> <<>>]

Faithful == [f |-> "ok"]
Fault(w) == [f |-> "wire", w |-> w]

\* the end of a remote call: the store as the call leaves it and what
\* Client.Call made of the response
RemoteDone(c, m, a, p, st, out) ==
    [c |-> [c EXCEPT
              !.store = st,
              !.script = IF c.script = <<>> THEN <<>> ELSE Tail(c.script),
              !.log = Append(@, [m |-> m, a |-> a, p |-> p,
                                 ok |-> out.err = NoErr])],
     body |-> out.body,
     err |-> out.err]

\* a remote call the store answered with r, delivered with status 200
RemoteServed(c, m, a, p, r) ==
    RemoteDone(c, m, a, p, r.store, Call(Wire(TRUE, 200, r.body)))

\* c.client.R().SetBody(reqBody).Post("/api") followed by the rest of Call:
\* one remote call with method m, string arguments a and map argument p
Remote(c, m, a, p) ==
    IF c.script = <<>> \/ Head(c.script).f = "ok"
    THEN RemoteServed(c, m, a, p, Respond(c.store, m, a, p))
    ELSE RemoteDone(c, m, a, p, c.store, Call(Head(c.script).w))

\* the keys of map m in the order the next range statement visits them
RangeKeys(c, m) ==
    Filter(IF c.orders = <<>> THEN KeySeq ELSE Head(c.orders), DOMAIN m)

\* the context after a range statement
Ranged(c) ==
    [c EXCEPT !.orders = IF c.orders = <<>> THEN <<>> ELSE Tail(c.orders)]

-----------------------------------------------------------------------------
(* The client (client.go).  Each operator returns the context after the    *)
(* function and what the function returns; a function that writes into the *)
(* caller's property map also returns the map as it leaves it.             *)

\* GetPage reporting a failed call as "no match"
GetPageDecodeMutSwallow(r) ==
    IF /\ r.err = NoErr
       /\ ~IsNullText(r.body) /\ ~IsEmptyArrText(r.body)
       /\ UnmarshalEntity(r.body).ok
    THEN [c |-> r.c, page |-> UnmarshalEntity(r.body).v, err |-> NoErr]
    ELSE [c |-> r.c, page |-> NilEntity, err |-> NoErr]

\* GetPage after its call returned r
GetPageDecode(r) ==
    IF r.err # NoErr
    THEN [c |-> r.c, page |-> NilEntity, err |-> r.err]
    ELSE IF /\ ~IsNullText(r.body) /\ ~IsEmptyArrText(r.body)
            /\ UnmarshalEntity(r.body).ok
    THEN [c |-> r.c, page |-> UnmarshalEntity(r.body).v, err |-> NoErr]
    ELSE [c |-> r.c, page |-> NilEntity, err |-> NoErr]

\* Client.GetPage(nameOrUUID): [c, page, err]
GetPage(c, nameOrUUID) ==
    GetPageDecode(Remote(c, "logseq.Editor.getPage", <<nameOrUUID>>, NoProps))

\* GetBlock after its call returned r
GetBlockDecode(r) ==
    IF r.err # NoErr
    THEN [c |-> r.c, block |-> NilEntity, err |-> r.err]
    ELSE IF IsNullText(r.body)
    THEN [c |-> r.c, block |-> NilEntity, err |-> NoErr]
    ELSE IF ~UnmarshalEntity(r.body).ok
    THEN [c |-> r.c, block |-> NilEntity, err |-> <<"failed to parse block: ">>]
    ELSE [c |-> r.c, block |-> UnmarshalEntity(r.body).v, err |-> NoErr]

\* Client.GetBlock(uuid): [c, block, err]
GetBlock(c, uuid) ==
    GetBlockDecode(Remote(c, "logseq.Editor.getBlock", <<uuid>>, NoProps))

\* the decoding that takes any well-formed answer for a created page
CreateDecodeMutAnyId(r) ==
    [c |-> r.c,
     page |-> IF r.err = NoErr /\ UnmarshalEntity(r.body).ok
              THEN UnmarshalEntity(r.body).v
              ELSE Entity(<<>>, <<>>, <<>>),
     err |-> r.err,
     success |-> r.err = NoErr /\ UnmarshalEntity(r.body).ok]

\* the decoding of the answer r of createPage: [c, page, err, success]
CreateDecode(r) ==
    [c |-> r.c,
     page |-> IF r.err = NoErr /\ UnmarshalEntity(r.body).ok
              THEN UnmarshalEntity(r.body).v
              ELSE Entity(<<>>, <<>>, <<>>),
     err |-> r.err,
     success |-> /\ r.err = NoErr
                 /\ UnmarshalEntity(r.body).ok
                 /\ UnmarshalEntity(r.body).v.uuid # <<>>]

\* a creation that issues createPage once more when the call failed
CreateCallMutRetry(c, name, properties) ==
    LET first == Remote(c, "logseq.Editor.createPage", <<name>>, properties)
    IN IF first.err # NoErr
       THEN CreateDecode(Remote(first.c, "logseq.Editor.createPage",
                                <<name>>, properties))
       ELSE CreateDecode(first)

\* CreatePage from "2. Create Page directly" to the end of the decoding of
\* the answer (options nil)
CreateCall(c, name, properties) ==
    CreateDecode(Remote(c, "logseq.Editor.createPage", <<name>>, properties))

\* the error CreatePage ends with when the creation did not succeed
FailedToCreate(name) == <<"failed to create page '">> \o name \o <<"'">>

\* the end of CreatePage(name, nil, nil) after the creation cc
CreatePageNilCreated(cc, name) ==
    IF cc.err # NoErr
    THEN [c |-> cc.c, page |-> NilEntity, err |-> cc.err]
    ELSE IF cc.success
    THEN [c |-> cc.c, page |-> cc.page, err |-> NoErr]
    ELSE [c |-> cc.c, page |-> NilEntity, err |-> FailedToCreate(name)]

\* CreatePage(name, nil, nil) after its lookup returned g: the existing page
\* as it is, or the creation.  With no properties CreatePage never reaches
\* UpdatePage.
CreatePageNilAfterLookup(g, name) ==
    IF g.err = NoErr /\ ~g.page.nil
    THEN [c |-> g.c, page |-> g.page, err |-> NoErr]
    ELSE CreatePageNilCreated(CreateCall(g.c, name, NoProps), name)

\* Client.CreatePage(name, nil, nil), the call EnsureLinkedPages makes:
\* [c, page, err]
CreatePageNil(c, name) == CreatePageNilAfterLookup(GetPage(c, name), name)

\* the links of the string values of properties, keys in the order ks
RECURSIVE PropLinks(_, _)
PropLinks(properties, ks) ==
    IF ks = <<>> THEN <<>>
    ELSE (IF IsString(properties[Head(ks)])
          THEN extractLinks(StringOf(properties[Head(ks)]))
          ELSE <<>>) \o PropLinks(properties, Tail(ks))

\* the block references of the string values of properties
RECURSIVE PropRefs(_, _)
PropRefs(properties, ks) ==
    IF ks = <<>> THEN <<>>
    ELSE (IF IsString(properties[Head(ks)])
          THEN extractBlockRefs(StringOf(properties[Head(ks)]))
          ELSE <<>>) \o PropRefs(properties, Tail(ks))

\* the first level of a walk whose path is still empty takes the part as
\* the path; every other level appends "/" and the part
NextPath(currentPath, part) ==
    IF currentPath = <<>> THEN part ELSE currentPath \o <<"/">> \o part

RECURSIVE WalkParts(_, _, _, _, _)

\* a level of the walk that forgets the identifier of the page it created
WalkCreatedMutForget(cr, parts, i, path, finalUUID) ==
    WalkParts(cr.c, parts, i + 1, path, finalUUID)

\* a level of the walk that gives the link up when CreatePage failed
WalkCreatedMutAbort(cr, parts, i, path, finalUUID) ==
    IF cr.err # NoErr THEN [c |-> cr.c, finalUUID |-> finalUUID]
    ELSE WalkParts(cr.c, parts, i + 1, path,
                   IF ~cr.page.nil /\ i = Len(parts) THEN cr.page.uuid
                   ELSE finalUUID)

\* a level of the walk after CreatePage returned cr for the path
WalkCreated(cr, parts, i, path, finalUUID) ==
    WalkParts(cr.c, parts, i + 1, path,
              IF cr.err = NoErr /\ ~cr.page.nil /\ i = Len(parts)
              THEN cr.page.uuid
              ELSE finalUUID)

\* a level of the walk after GetPage returned g for the path
WalkLooked(g, parts, i, path, finalUUID) ==
    IF g.err = NoErr /\ ~g.page.nil
    THEN WalkParts(g.c, parts, i + 1, path,
                   IF i = Len(parts) THEN g.page.uuid ELSE finalUUID)
    ELSE WalkCreated(CreatePageNil(g.c, path), parts, i, path, finalUUID)

\* the loop over parts of EnsureLinkedPages, from part i on:
\* [c, finalUUID]
WalkParts(c, parts, i, currentPath, finalUUID) ==
    IF i > Len(parts) THEN [c |-> c, finalUUID |-> finalUUID]
    ELSE WalkLooked(GetPage(c, NextPath(currentPath, parts[i])),
                    parts, i, NextPath(currentPath, parts[i]), finalUUID)

\* step 4 of EnsureLinkedPages on the property map
ReplaceInProps(properties, target, replacement) ==
    [k \in DOMAIN properties |->
        IF IsString(properties[k]) /\ Contains(StringOf(properties[k]), target)
        THEN SVal(ReplaceAll(StringOf(properties[k]), target, replacement))
        ELSE properties[k]]

\* a link rewritten whenever its leaf has an id, hierarchical or not
RewritesMutFlat(link, finalUUID) == finalUUID # <<>>

\* a hierarchical link rewritten whether or not its leaf has an id
RewritesMutAlways(link, finalUUID) == Contains(link, <<"/">>)

\* whether a link is rewritten: it is hierarchical and its leaf has an id
Rewrites(link, finalUUID) == Contains(link, <<"/">>) /\ finalUUID # <<>>

LinkTo(name) == <<"[", "[">> \o name \o <<"]", "]">>
RefTo(uuid) == <<"(", "(">> \o uuid \o <<")", ")">>

RECURSIVE EnsureLinks(_, _, _, _)

\* a round of the loop over linkList after the walk w of its link
EnsureLinksWalked(w, linkList, content, properties) ==
    IF Rewrites(Head(linkList), w.finalUUID)
    THEN EnsureLinks(w.c, Tail(linkList),
                     ReplaceAll(content, LinkTo(Head(linkList)),
                                RefTo(w.finalUUID)),
                     ReplaceInProps(properties, LinkTo(Head(linkList)),
                                    RefTo(w.finalUUID)))
    ELSE EnsureLinks(w.c, Tail(linkList), content, properties)

\* the loop over linkList of EnsureLinkedPages: [c, content, properties]
EnsureLinks(c, linkList, content, properties) ==
    IF linkList = <<>>
    THEN [c |-> c, content |-> content, properties |-> properties]
    ELSE EnsureLinksWalked(WalkParts(c, Split(Head(linkList)), 1, <<>>, <<>>),
                           linkList, content, properties)

RECURSIVE VerifyRefs(_, _)

\* a check that asks for every reference twice
VerifyRefsMutTwice(c, refs) ==
    IF refs = <<>> THEN c
    ELSE VerifyRefs(GetBlock(GetBlock(c, Head(refs)).c, Head(refs)).c,
                    Tail(refs))

\* step 5 of EnsureLinkedPages: one GetBlock per reference, result ignored
VerifyRefs(c, refs) ==
    IF refs = <<>> THEN c
    ELSE VerifyRefs(GetBlock(c, Head(refs)).c, Tail(refs))

\* EnsureLinkedPages after the loop over linkList returned e
EnsureLinkedPagesLinked(e) ==
    [c |-> VerifyRefs(Ranged(e.c),
                      extractBlockRefs(e.content)
                      \o PropRefs(e.properties, RangeKeys(e.c, e.properties))),
     content |-> e.content,
     properties |-> e.properties]

\* Client.EnsureLinkedPages(content, properties): [c, content, properties]
EnsureLinkedPages(c, content, properties) ==
    EnsureLinkedPagesLinked(
        EnsureLinks(Ranged(c),
                    Dedup(extractLinks(content)
                          \o PropLinks(properties, RangeKeys(c, properties)), {}),
                    content, properties))

RECURSIVE UpsertEach(_, _, _, _)

\* a round of the upsert loop that goes on to the next key after a failure
UpsertEachDoneMutGoOn(r, uuid, properties, ks) ==
    UpsertEach(r.c, uuid, properties, Tail(ks))

\* a round of the upsert loop after its call returned r
UpsertEachDone(r, uuid, properties, ks) ==
    IF r.err # NoErr
    THEN [c |-> r.c,
          err |-> <<"failed to update property ", Head(ks), ": ">> \o r.err]
    ELSE UpsertEach(r.c, uuid, properties, Tail(ks))

\* the upsert loop of UpdatePage over the keys ks: [c, err]
UpsertEach(c, uuid, properties, ks) ==
    IF ks = <<>> THEN [c |-> c, err |-> NoErr]
    ELSE UpsertEachDone(
             Remote(c, "logseq.Editor.upsertBlockProperty", <<uuid, <<Head(ks)>>>>,
                    [x \in {Head(ks)} |-> properties[Head(ks)]]),
             uuid, properties, ks)

\* a result [c, page or block, err] together with the caller's property map
\* as the function leaves it
WithProperties(result, properties) == result @@ [properties |-> properties]

\* UpdatePage after its upsert loop returned u
UpdatePageUpserted(u, uuid, properties) ==
    IF u.err # NoErr
    THEN [c |-> u.c, page |-> NilEntity, err |-> u.err, properties |-> properties]
    ELSE WithProperties(GetPage(u.c, uuid), properties)

\* UpdatePage after EnsureLinkedPages returned e
UpdatePageLinked(e, uuid) ==
    UpdatePageUpserted(UpsertEach(Ranged(e.c), uuid, e.properties,
                                  RangeKeys(e.c, e.properties)),
                       uuid, e.properties)

\* Client.UpdatePage(uuid, properties): [c, page, err, properties]
UpdatePage(c, uuid, properties) ==
    UpdatePageLinked(EnsureLinkedPages(c, <<>>, properties), uuid)

\* CreatePage returning c.GetPage(existing.UUID) after the update u
CreatePageRefetched(u, uuid) ==
    WithProperties(GetPage(u.c, uuid), u.properties)

\* the end of CreatePage after the page was created and its properties
\* applied: the page as fetched again (g), else as created
CreatePageUpdatedFetched(g, page, properties) ==
    IF g.err = NoErr /\ ~g.page.nil
    THEN [c |-> g.c, page |-> g.page, err |-> NoErr, properties |-> properties]
    ELSE [c |-> g.c, page |-> page, err |-> NoErr, properties |-> properties]

\* CreatePage after the update u of the page it created
CreatePageUpdated(u, page) ==
    CreatePageUpdatedFetched(GetPage(u.c, page.uuid), page, u.properties)

\* CreatePage after the creation cc
CreatePageCreated(cc, name, properties) ==
    IF cc.err # NoErr
    THEN [c |-> cc.c, page |-> NilEntity, err |-> cc.err,
          properties |-> properties]
    ELSE IF cc.success
    THEN IF DOMAIN properties # {}
         THEN CreatePageUpdated(UpdatePage(cc.c, cc.page.uuid, properties),
                                cc.page)
         ELSE [c |-> cc.c, page |-> cc.page, err |-> NoErr,
               properties |-> properties]
    ELSE [c |-> cc.c, page |-> NilEntity, err |-> FailedToCreate(name),
          properties |-> properties]

\* CreatePage looking at the store once more before it creates
CreatePageAfterLookupMutRecheck(g, name, properties) ==
    IF (g.err = NoErr /\ ~g.page.nil) \/ PageNamed(g.c.store, name) # {}
    THEN [c |-> g.c, page |-> g.page, err |-> NoErr, properties |-> properties]
    ELSE CreatePageCreated(CreateCall(g.c, name, properties), name, properties)

\* CreatePage after its lookup returned g
CreatePageAfterLookup(g, name, properties) ==
    IF g.err = NoErr /\ ~g.page.nil
    THEN IF DOMAIN properties # {}
         THEN CreatePageRefetched(UpdatePage(g.c, g.page.uuid, properties),
                                  g.page.uuid)
         ELSE [c |-> g.c, page |-> g.page, err |-> NoErr,
               properties |-> properties]
    ELSE CreatePageCreated(CreateCall(g.c, name, properties), name, properties)

\* Client.CreatePage(name, properties, nil): [c, page, err, properties]
CreatePage(c, name, properties) ==
    CreatePageAfterLookup(GetPage(c, name), name, properties)

\* UpdateBlock that takes no identifier from a bare-string response
UpdateBlockCalledMutNoString(r, uuid, properties) ==
    IF r.err # NoErr
    THEN [c |-> r.c, block |-> NilEntity, err |-> r.err,
          properties |-> properties]
    ELSE IF UnmarshalEntity(r.body).ok /\ UnmarshalEntity(r.body).v.uuid # <<>>
    THEN [c |-> r.c, block |-> UnmarshalEntity(r.body).v, err |-> NoErr,
          properties |-> properties]
    ELSE WithProperties(GetBlock(r.c, uuid), properties)

\* UpdateBlock after its call returned r
UpdateBlockCalled(r, uuid, properties) ==
    IF r.err # NoErr
    THEN [c |-> r.c, block |-> NilEntity, err |-> r.err,
          properties |-> properties]
    ELSE IF UnmarshalEntity(r.body).ok /\ UnmarshalEntity(r.body).v.uuid # <<>>
    THEN [c |-> r.c, block |-> UnmarshalEntity(r.body).v, err |-> NoErr,
          properties |-> properties]
    ELSE IF UnmarshalString(r.body).ok /\ UnmarshalString(r.body).v # <<>>
    THEN WithProperties(GetBlock(r.c, UnmarshalString(r.body).v), properties)
    ELSE WithProperties(GetBlock(r.c, uuid), properties)

\* UpdateBlock after EnsureLinkedPages returned e
UpdateBlockLinked(e, uuid) ==
    UpdateBlockCalled(Remote(e.c, "logseq.Editor.updateBlock",
                             <<uuid, e.content>>, e.properties),
                      uuid, e.properties)

\* Client.UpdateBlock(uuid, content, properties): [c, block, err, properties]
UpdateBlock(c, uuid, content, properties) ==
    UpdateBlockLinked(EnsureLinkedPages(c, content, properties), uuid)

\* InsertBlock after UpdateBlock returned u for the inserted block
InsertBlockUpdated(u, block) ==
    IF u.err # NoErr
    THEN [c |-> u.c, block |-> block,
          err |-> <<"block created but properties failed: ">> \o u.err,
          properties |-> u.properties]
    ELSE WithProperties(GetBlock(u.c, block.uuid), u.properties)

\* InsertBlock after its call returned r
InsertBlockCalled(r, content, properties) ==
    IF r.err # NoErr
    THEN [c |-> r.c, block |-> NilEntity, err |-> r.err,
          properties |-> properties]
    ELSE IF ~UnmarshalEntity(r.body).ok
    THEN [c |-> r.c, block |-> NilEntity,
          err |-> <<"failed to parse inserted block: ">>,
          properties |-> properties]
    ELSE IF DOMAIN properties # {}
    THEN InsertBlockUpdated(
             UpdateBlock(r.c, UnmarshalEntity(r.body).v.uuid, content, properties),
             UnmarshalEntity(r.body).v)
    ELSE [c |-> r.c, block |-> UnmarshalEntity(r.body).v, err |-> NoErr,
          properties |-> properties]

\* InsertBlock after EnsureLinkedPages returned e
InsertBlockLinked(e, parentUUID) ==
    InsertBlockCalled(Remote(e.c, "logseq.Editor.insertBlock",
                             <<parentUUID, e.content>>, NoProps),
                      e.content, e.properties)

\* Client.InsertBlock(parentUUID, content, properties, nil):
\* [c, block, err, properties]
InsertBlock(c, parentUUID, content, properties) ==
    InsertBlockLinked(EnsureLinkedPages(c, content, properties), parentUUID)

\* AppendBlockInPage after its call returned r
AppendBlockCalled(r) ==
    IF r.err # NoErr
    THEN [c |-> r.c, block |-> NilEntity, err |-> r.err]
    ELSE IF ~UnmarshalEntity(r.body).ok
    THEN [c |-> r.c, block |-> NilEntity,
          err |-> <<"failed to parse appended block: ">>]
    ELSE [c |-> r.c, block |-> UnmarshalEntity(r.body).v, err |-> NoErr]

\* AppendBlockInPage after EnsureLinkedPages returned e
AppendBlockLinked(e, pageName) ==
    AppendBlockCalled(Remote(e.c, "logseq.Editor.appendBlockInPage",
                             <<pageName, e.content>>, NoProps))

\* Client.AppendBlockInPage(pageName, content, nil): [c, block, err]
AppendBlockInPage(c, pageName, content) ==
    AppendBlockLinked(EnsureLinkedPages(c, content, NoProps), pageName)

\* json.Unmarshal(resp, &blocks) into []Block: null leaves the nil slice, an
\* array decodes when each of its elements decodes as a block, any other
\* JSON value is an error
UnmarshalBlocks(body) ==
    CASE body.t = "null" -> [ok |-> TRUE, v |-> <<>>]
      [] body.t = "list" ->
            IF \A i \in DOMAIN body.items : UnmarshalEntity(body.items[i]).ok
            THEN [ok |-> TRUE,
                  v |-> [i \in DOMAIN body.items |->
                            UnmarshalEntity(body.items[i]).v]]
            ELSE [ok |-> FALSE, v |-> <<>>]
      [] OTHER -> [ok |-> FALSE, v |-> <<>>]

\* a BlockContent: content, properties and children
BlockContent(content, properties, children) ==
    [content |-> content, properties |-> properties, children |-> children]

\* the contents of a batch, each block before its children
RECURSIVE BatchContents(_)
BatchContents(batch) ==
    IF batch = <<>> THEN <<>>
    ELSE <<Head(batch).content>> \o BatchContents(Head(batch).children)
         \o BatchContents(Tail(batch))

\* the properties of the blocks of a batch (the blocks of a batch use
\* different keys)
RECURSIVE BatchProperties(_)
BatchProperties(batch) ==
    IF batch = <<>> THEN NoProps
    ELSE Head(batch).properties @@ BatchProperties(Head(batch).children)
         @@ BatchProperties(Tail(batch))

RECURSIVE scanBlocks(_, _)

\* scanBlocks after the rest of the blocks was scanned
scanBlocksRest(rest, block) ==
    [c |-> rest.c, blocks |-> <<block>> \o rest.blocks]

\* scanBlocks after the children ch of its first block were scanned
scanBlocksChildren(ch, e, blocks) ==
    scanBlocksRest(scanBlocks(ch.c, Tail(blocks)),
                   BlockContent(e.content, e.properties, ch.blocks))

\* a scan that leaves the children of a block as they are
scanBlocksLinkedMutShallow(e, blocks) ==
    scanBlocksChildren([c |-> e.c, blocks |-> Head(blocks).children], e, blocks)

\* scanBlocks after EnsureLinkedPages returned e for its first block
scanBlocksLinked(e, blocks) ==
    scanBlocksChildren(scanBlocks(e.c, Head(blocks).children), e, blocks)

\* the scanBlocks closure of InsertBatchBlock: [c, blocks]
scanBlocks(c, blocks) ==
    IF blocks = <<>> THEN [c |-> c, blocks |-> <<>>]
    ELSE scanBlocksLinked(
             EnsureLinkedPages(c, Head(blocks).content, Head(blocks).properties),
             blocks)

\* InsertBatchBlock after its call returned r
InsertBatchBlockCalled(r, batch) ==
    IF r.err # NoErr
    THEN [c |-> r.c, blocks |-> <<>>, err |-> r.err, batch |-> batch]
    ELSE IF ~UnmarshalBlocks(r.body).ok
    THEN [c |-> r.c, blocks |-> <<>>,
          err |-> <<"failed to parse batch blocks: ">>, batch |-> batch]
    ELSE [c |-> r.c, blocks |-> UnmarshalBlocks(r.body).v, err |-> NoErr,
          batch |-> batch]

\* InsertBatchBlock after scanBlocks returned s
InsertBatchBlockScanned(s, parentUUID) ==
    InsertBatchBlockCalled(
        Remote(s.c, "logseq.Editor.insertBatchBlock",
               <<parentUUID>> \o BatchContents(s.blocks),
               BatchProperties(s.blocks)),
        s.blocks)

\* Client.InsertBatchBlock(parentUUID, batch, nil): [c, blocks, err, batch],
\* batch being the caller's slice as the function leaves it
InsertBatchBlock(c, parentUUID, batch) ==
    InsertBatchBlockScanned(scanBlocks(c, batch), parentUUID)

\* getEntityBlock after getPageBlocksTree returned r
getEntityBlockTree(r, uuid) ==
    IF /\ r.err = NoErr
       /\ ~IsNullText(r.body) /\ ~IsEmptyArrText(r.body)
       /\ UnmarshalBlocks(r.body).ok
       /\ Len(UnmarshalBlocks(r.body).v) > 0
    THEN [c |-> r.c, block |-> UnmarshalBlocks(r.body).v[1], err |-> NoErr]
    ELSE [c |-> r.c, block |-> NilEntity,
          err |-> <<"failed to find content block for page: ">> \o uuid]

\* getEntityBlock after GetBlock(page.UUID) returned b
getEntityBlockPageBlock(b, page, uuid) ==
    IF b.err # NoErr \/ ~b.block.nil THEN b
    ELSE getEntityBlockTree(
             Remote(b.c, "logseq.Editor.getPageBlocksTree", <<page.uuid>>, NoProps),
             uuid)

\* getEntityBlock after GetPage(uuid) returned g
getEntityBlockPage(g, uuid) ==
    IF g.err # NoErr \/ g.page.nil
    THEN [c |-> g.c, block |-> NilEntity,
          err |-> <<"entity not found: ">> \o uuid]
    ELSE getEntityBlockPageBlock(GetBlock(g.c, g.page.uuid), g.page, uuid)

\* getEntityBlock after GetBlock(uuid) returned b
getEntityBlockFirst(b, uuid) ==
    IF b.err # NoErr \/ ~b.block.nil THEN b
    ELSE getEntityBlockPage(GetPage(b.c, uuid), uuid)

\* Client.getEntityBlock(uuid): [c, block, err]
getEntityBlock(c, uuid) == getEntityBlockFirst(GetBlock(c, uuid), uuid)

\* "#" + strings.TrimPrefix(tag, "#")
TagStr(tag) ==
    <<"#">> \o (IF tag # <<>> /\ Head(tag) = "#" THEN Tail(tag) ELSE tag)

\* strings.Contains(err.Error(), "failed to find content block"), for the
\* errors of getEntityBlock
NoContentBlock(err) ==
    \E i \in DOMAIN err : err[i] = "failed to find content block for page: "

\* the last step of AddTag with any block taken as not yet tagged
AddTagUpdateMutAlways(c, block, tag) ==
    [c |-> UpdateBlock(c, block.uuid,
                       TrimSpace(block.content) \o <<" ">> \o TagStr(tag),
                       NoProps).c,
     err |-> UpdateBlock(c, block.uuid,
                         TrimSpace(block.content) \o <<" ">> \o TagStr(tag),
                         NoProps).err]

\* the last step of AddTag, on the block it resolved: [c, err]
AddTagUpdate(c, block, tag) ==
    IF Contains(block.content, TagStr(tag)) THEN [c |-> c, err |-> NoErr]
    ELSE [c |-> UpdateBlock(c, block.uuid,
                            TrimSpace(block.content) \o <<" ">> \o TagStr(tag),
                            NoProps).c,
          err |-> UpdateBlock(c, block.uuid,
                              TrimSpace(block.content) \o <<" ">> \o TagStr(tag),
                              NoProps).err]

\* AddTag after AppendBlockInPage returned a
AddTagAppended(a, tag) ==
    IF a.err # NoErr THEN [c |-> a.c, err |-> a.err]
    ELSE AddTagUpdate(a.c, a.block, tag)

\* AddTag after getEntityBlock returned r
AddTagResolved(r, uuid, tag) ==
    IF r.err = NoErr THEN AddTagUpdate(r.c, r.block, tag)
    ELSE IF NoContentBlock(r.err)
    THEN AddTagAppended(AppendBlockInPage(r.c, uuid, <<>>), tag)
    ELSE [c |-> r.c, err |-> r.err]

\* Client.AddTag(uuid, tag): [c, err]
AddTag(c, uuid, tag) == AddTagResolved(getEntityBlock(c, uuid), uuid, tag)

\* the flattening loop of Query: the first element of every row that is a
\* non-empty list
RECURSIVE FlattenRows(_)
FlattenRows(list) ==
    IF list = <<>> THEN <<>>
    ELSE (IF Head(list).t = "list" /\ Head(list).items # <<>>
          THEN <<Head(list).items[1]>>
          ELSE <<>>) \o FlattenRows(Tail(list))

\* the end of Query, on the decoded results: flattened when the first
\* element of a non-empty list is itself a list
Flatten(results) ==
    IF /\ results.t = "list"
       /\ results.items # <<>>
       /\ results.items[1].t = "list"
    THEN JList(FlattenRows(results.items))
    ELSE results

\* Query from json.Unmarshal(resp, &results) on
QueryDecode(c, resp) ==
    IF resp.t = "text"
    THEN [c |-> c, results |-> JNull,
          err |-> <<"failed to parse query results: ">>]
    ELSE [c |-> c, results |-> Flatten(resp), err |-> NoErr]

\* a fallback whose failure ends the query with its error
QueryFellBackMutFatal(ds, resp) ==
    IF ds.err # NoErr THEN [c |-> ds.c, results |-> JNull, err |-> ds.err]
    ELSE IF ~IsEmptyArrText(ds.body) /\ ~IsNullText(ds.body)
    THEN QueryDecode(ds.c, ds.body)
    ELSE QueryDecode(ds.c, resp)

\* Query after the fallback call returned ds: its answer replaces the first
\* one, resp, when it is a success and neither [] nor null
QueryFellBack(ds, resp) ==
    IF ds.err = NoErr /\ ~IsEmptyArrText(ds.body) /\ ~IsNullText(ds.body)
    THEN QueryDecode(ds.c, ds.body)
    ELSE QueryDecode(ds.c, resp)

\* Query after its first call returned r
QueryCalled(r, datalog) ==
    IF r.err # NoErr
    THEN [c |-> r.c, results |-> JNull, err |-> r.err]
    ELSE IF IsEmptyArrText(r.body) \/ IsNullText(r.body)
    THEN QueryFellBack(Remote(r.c, "logseq.DB.datascriptQuery", <<datalog>>,
                              NoProps),
                       r.body)
    ELSE QueryDecode(r.c, r.body)

\* Client.Query(datalog): [c, results, err]
Query(c, datalog) ==
    QueryCalled(Remote(c, "logseq.DB.q", <<datalog>>, NoProps), datalog)

\* what GetDailyJournal returns as its value (an any): the nil interface, a
\* *Page, a raw map, or a map[string]any that is nil, which is an interface
\* value other than nil
NoJournal == [kind |-> "nil", page |-> NilEntity]

\* json.Unmarshal into Page gave a page with an identifier
DecodesAsPage(body) ==
    UnmarshalEntity(body).ok /\ UnmarshalEntity(body).v.uuid # <<>>

\* json.Unmarshal into map[string]any gave no error: an object, or null,
\* which leaves the nil map
DecodesAsMap(body) == body.t \in {"obj", "badobj", "errobj", "null"}

\* the value GetDailyJournal makes of a body that decodes
JournalOf(body) ==
    IF DecodesAsPage(body)
    THEN [kind |-> "page", page |-> UnmarshalEntity(body).v]
    ELSE IF body.t = "null" THEN [kind |-> "nilmap", page |-> NilEntity]
    ELSE [kind |-> "raw", page |-> NilEntity]

\* the datalog of the fallback (the day is today's)
JournalQuery == <<"journal-day">>

\* GetDailyJournal after its fallback Query returned q
GetDailyJournalQueried(q) ==
    IF /\ q.err = NoErr
       /\ q.results.t = "list"
       /\ Len(q.results.items) > 0
       /\ DecodesAsPage(q.results.items[1]) \/ DecodesAsMap(q.results.items[1])
    THEN [c |-> q.c, v |-> JournalOf(q.results.items[1]), err |-> NoErr]
    ELSE [c |-> q.c, v |-> NoJournal, err |-> NoErr]

\* GetDailyJournal after getTodayJournalPage returned r
GetDailyJournalCalled(r) ==
    IF /\ r.err = NoErr
       /\ ~IsNullText(r.body) /\ ~IsEmptyArrText(r.body)
       /\ DecodesAsPage(r.body) \/ DecodesAsMap(r.body)
    THEN [c |-> r.c, v |-> JournalOf(r.body), err |-> NoErr]
    ELSE GetDailyJournalQueried(Query(r.c, JournalQuery))

\* Client.GetDailyJournal(): [c, v, err]
GetDailyJournal(c) ==
    GetDailyJournalCalled(
        Remote(c, "logseq.App.getTodayJournalPage", <<>>, NoProps))

-----------------------------------------------------------------------------
(* State.  store is the remote store; last is the record of the operation  *)
(* that has just completed (its arguments, what it returned, the remote    *)
(* calls it issued), None once the caller has taken the result; prev is a  *)
(* digest of the operation before it; procs holds the concurrent           *)
(* CreatePage invocations of the race specification.                       *)

None == [op |-> "none", n |-> 0]

EmptyStore(nomatch) ==
    [pages |-> {}, blocks |-> {}, props |-> {}, next |-> 1, nomatch |-> nomatch]

\* a store that holds pages with the given names, identifiers in sequence
RECURSIVE WithPages(_, _)
WithPages(st, names) ==
    IF names = <<>> THEN st
    ELSE WithPages([st EXCEPT
                      !.pages = @ \cup {[name |-> Head(names),
                                         uuid |-> PageUuid(st.next)]},
                      !.next = @ + 1],
                   Tail(names))

nA == <<"A">>
nC == <<"C">>
nAB == <<"A", "/", "B">>
nABC == <<"A", "/", "B", "/", "C">>
nRoot == <<"R", "o", "o", "t">>
nNs == <<"N", "s">>
nNsChild == <<"N", "s", "/", "C", "h", "i", "l", "d">>


Down == Wire(FALSE, 0, NoBody)
Biz == Wire(TRUE, 200, JErr("str", "boom"))

\* the scripts of at most n entries over the faults F that end in a fault
\* (a script's missing tail is faithful)
RECURSIVE AnyScripts(_, _)
AnyScripts(F, n) ==
    IF n = 0 THEN {<<>>}
    ELSE LET S == AnyScripts(F, n - 1)
         IN S \cup {Append(s, d) : s \in {x \in S : Len(x) = n - 1},
                                   d \in {Faithful} \cup {Fault(w) : w \in F}}

Scripts(F, n) ==
    {s \in AnyScripts(F, n) : s = <<>> \/ s[Len(s)].f # "ok"}

\* the scripts that leave the first k - 1 calls to the store and answer the
\* k-th with a fault of F, for k up to n, and the empty script
OneFault(F, n) ==
    {<<>>} \cup {[i \in 1..k |-> IF i < k THEN Faithful ELSE Fault(f)] :
                    k \in 1..n, f \in F}

Idle == [pc |-> "idle"]
IdleProcs == [i \in {1, 2} |-> Idle]

\* what is kept of an operation once its result is taken: the operation,
\* its rank n in the behaviour, its subject (the name or the content it was
\* given) and the identifier or content it returned
Digest(rec) ==
    CASE rec.op = "CreatePage" ->
            [op |-> rec.op, n |-> rec.n, subject |-> rec.name,
             empty |-> DOMAIN rec.properties = {},
             ok |-> rec.err = NoErr, out |-> rec.page.uuid]
      [] rec.op = "InsertBlock" ->
            [op |-> rec.op, n |-> rec.n, subject |-> rec.content,
             empty |-> DOMAIN rec.properties = {},
             ok |-> rec.err = NoErr, out |-> rec.block.uuid]
      [] rec.op = "EnsureLinkedPages" ->
            [op |-> rec.op, n |-> rec.n, subject |-> rec.content,
             empty |-> DOMAIN rec.properties = {},
             ok |-> TRUE, out |-> rec.out]
      [] OTHER -> None

-----------------------------------------------------------------------------
(* SpecUnit: the functions that take one response at a time, on every      *)
(* response: Client.Call, GetPage and Query.                               *)

Statuses == {200, 204, 304, 400, 404, 500}

\* the elements of a query result: a value, an empty row, a row of one
\* column, a row of two columns
JsonElems ==
    {JAtom("x"), JList(<<>>), JList(<<JAtom("y")>>),
     JList(<<JAtom("x"), JAtom("y")>>)}
JsonLists ==
    {JList(<<>>)}
    \cup {JList(<<e>>) : e \in JsonElems}
    \cup {JList(<<e, f>>) : e \in JsonElems, f \in JsonElems}

Bodies ==
    {JNull, JText, JBad, JStr(<<"u", "1">>), JStr(<<>>), JAtom("x"),
     JList(<<>>), JList(<<JAtom("x")>>),
     JObj(<<"u", "1">>, nA, <<>>), JObj(<<>>, <<>>, <<>>),
     JErr("str", "boom"), JErr("str", ""), JErr("num", "5")}

Wires == {Wire(n, s, b) : n \in BOOLEAN, s \in Statuses, b \in Bodies}

QueryWires ==
    {Down, Biz, Wire(TRUE, 200, JNull), Wire(TRUE, 200, JText),
     Wire(TRUE, 200, JAtom("x")), Wire(TRUE, 200, JObj(<<"u", "1">>, nA, <<>>))}
    \cup {Wire(TRUE, 200, l) : l \in JsonLists}

UnitStores ==
    {EmptyStore("[]"), WithPages(EmptyStore("null"), <<nA, nAB>>)}

InitUnit ==
    /\ store \in UnitStores
    /\ prev = None
    /\ last = None
    /\ procs = IdleProcs

\* the caller takes the result of the operation that completed
Return ==
    /\ last # None
    /\ prev' = Digest(last)
    /\ last' = None
    /\ UNCHANGED <<store, procs>>

\* one Client.Call on any wire response
CallOp ==
    \E w \in Wires :
        /\ last = None
        /\ last' = [op |-> "Call", n |-> 1, w |-> w, body |-> Call(w).body,
                    err |-> Call(w).err]
        /\ UNCHANGED <<store, prev, procs>>

\* one GetPage, the network answering with the store's answer or with any
\* wire response
GetPageOp ==
    \E x \in {nA, nAB, nC, PageUuid(1), <<>>},
       d \in {Faithful} \cup {Fault(w) : w \in Wires} :
        LET r == GetPage(Ctx(store, <<d>>, <<>>), x)
        IN /\ last = None
           /\ last' = [op |-> "GetPage", n |-> 1, arg |-> x, d |-> d,
                       matches |-> PagesMatching(store, x),
                       page |-> r.page, err |-> r.err, log |-> r.c.log]
           /\ store' = r.c.store
           /\ UNCHANGED <<prev, procs>>

\* one Query, the network answering its calls with any two wire responses
QueryOp ==
    \E w1 \in QueryWires, w2 \in QueryWires :
        LET r == Query(Ctx(store, <<Fault(w1), Fault(w2)>>, <<>>), <<"q">>)
        IN /\ last = None
           /\ last' = [op |-> "Query", n |-> 1, w1 |-> w1, w2 |-> w2,
                       results |-> r.results, err |-> r.err, log |-> r.c.log]
           /\ store' = r.c.store
           /\ UNCHANGED <<prev, procs>>

NextUnit == CallOp \/ GetPageOp \/ QueryOp \/ Return

SpecUnit == InitUnit /\ [][NextUnit]_vars

-----------------------------------------------------------------------------
(* Claims about the functions of SpecUnit.                                 *)

Is2xx(status) == status >= 200 /\ status <= 299

\* the body is a JSON object with a non-empty "error" field
HasErrorField(body) == body.t = "errobj" /\ body.msg # ""

\* the body is a JSON object whose "error" field is a non-empty string
HasErrorString(body) == HasErrorField(body) /\ body.kind = "str"

\* C7 (as claimed): Query returns the inner elements of a decoded list of
\* single-element lists, and returns every other decoded result (a flat
\* list, rows of more than one element, a mixed list, a non-list) unchanged.
\* Stated for a primary answer that is not empty, which is then the result
\* that is decoded.
C7_QueryFlattensOnlySingletonRows ==
    (/\ last.op = "Query"
     /\ last.w1.net /\ last.w1.status = 200
     /\ last.w1.body.t \in {"list", "atom", "obj"}
     /\ ~IsEmptyArrText(last.w1.body))
    => LET decoded == last.w1.body
           singletons ==
               /\ decoded.t = "list"
               /\ \A i \in DOMAIN decoded.items :
                     /\ decoded.items[i].t = "list"
                     /\ Len(decoded.items[i].items) = 1
       IN /\ last.err = NoErr
          /\ IF singletons
             THEN last.results =
                    JList([i \in DOMAIN decoded.items |-> decoded.items[i].items[1]])
             ELSE last.results = decoded

\* C8 (as claimed): Call returns an error and no body whenever the transport
\* fails, the status is not 2xx, or a 2xx body is a JSON object with a
\* non-empty "error" field (the error text being "api error: " and the
\* field); otherwise it returns the body unchanged and no error.
C8_CallFailsOnNon2xx ==
    last.op = "Call"
    => LET w == last.w
           business == w.net /\ Is2xx(w.status) /\ HasErrorField(w.body)
       IN IF ~w.net \/ ~Is2xx(w.status) \/ business
          THEN /\ last.err # NoErr
               /\ last.body = NoBody
               /\ business => last.err = <<"api error: ", w.body.msg>>
          ELSE last.err = NoErr /\ last.body = w.body

\* C9: GetPage issues exactly one getPage call, with its argument, and
\* returns (page, nil) when the store has a match, (nil, nil) when the
\* store reports no match (null or []), and (nil, error) when the call
\* fails (no answer, a status of 400 or above, or a business error).
C9_GetPageOutcomes ==
    last.op = "GetPage"
    => /\ Len(last.log) = 1
       /\ last.log[1].m = "logseq.Editor.getPage"
       /\ last.log[1].a = <<last.arg>>
       /\ (last.d.f = "ok" /\ last.matches # {})
          => /\ last.err = NoErr
             /\ ~last.page.nil
             /\ \E q \in last.matches :
                   last.page.uuid = q.uuid /\ last.page.name = q.name
       /\ (last.d.f = "ok" /\ last.matches = {})
          => last.err = NoErr /\ last.page.nil
       /\ (/\ last.d.f = "wire" /\ last.d.w.net /\ last.d.w.status = 200
           /\ (IsNullText(last.d.w.body) \/ IsEmptyArrText(last.d.w.body)))
          => last.err = NoErr /\ last.page.nil
       /\ (/\ last.d.f = "wire"
           /\ \/ ~last.d.w.net
              \/ last.d.w.status >= 400
              \/ HasErrorString(last.d.w.body))
          => last.err # NoErr /\ last.page.nil

\* all three outcomes in one place: a GetPage of an existing page whose
\* call failed, on a store that also answers "no match" for other names
C9_Witness ==
    /\ last.op = "GetPage"
    /\ last.matches # {}
    /\ last.d.f = "wire" /\ ~last.d.w.net
    /\ last.err # NoErr
    /\ last.page.nil

-----------------------------------------------------------------------------
(* SpecUpsert: CreatePage invoked again and again, one invocation at a     *)
(* time, on a store that may or may not hold the page, over a network that *)
(* may fail any of the first MaxScript calls of an invocation.             *)

\* what the network may do to a call of an operation instead of delivering
\* it: no answer (a transport failure) or a business error
OpFaults == {Down, Biz}

UpsertNames == {nA, nAB}

UpsertProps == {NoProps, [k \in {"k1"} |-> SVal(<<"x">>)]}

\* the iteration orders handed to an operation on a map: they matter only
\* to a map of more than one key
OrdersFor(properties) ==
    IF Cardinality(DOMAIN properties) < 2 THEN {<<>>}
    ELSE {<<o1, o2>> : o1 \in KeyOrders, o2 \in KeyOrders}

InitUpsert ==
    /\ store \in {EmptyStore("null"), WithPages(EmptyStore("[]"), <<nA>>)}
    /\ prev = None
    /\ last = None
    /\ procs = IdleProcs

CreatePageOp ==
    \E name \in UpsertNames, properties \in UpsertProps,
       script \in Scripts(OpFaults, MaxScript) :
        \E orders \in OrdersFor(properties) :
            LET r == CreatePage(Ctx(store, script, orders), name, properties)
            IN /\ last = None
               /\ prev.n < MaxRuns
               /\ last' = [op |-> "CreatePage", n |-> prev.n + 1, name |-> name,
                           properties |-> properties,
                           existed |-> PageNamed(store, name) # {},
                           before |-> store,
                           page |-> r.page, err |-> r.err, log |-> r.c.log]
               /\ store' = r.c.store
               /\ UNCHANGED <<prev, procs>>

NextUpsert == CreatePageOp \/ Return

SpecUpsert == InitUpsert /\ [][NextUpsert]_vars

\* the calls of a log with method m
CallsOf(log, m) == {i \in DOMAIN log : log[i].m = m}

\* C1 (as claimed): CreatePage(name, no properties) called twice in sequence
\* returns the same page identifier both times, and the second call issues
\* no logseq.Editor.createPage call.  Stated for two invocations that both
\* return a page.
C1_SecondUpsertCreatesNothing ==
    (/\ last.op = "CreatePage" /\ prev.op = "CreatePage"
     /\ prev.subject = last.name
     /\ prev.empty /\ DOMAIN last.properties = {}
     /\ prev.ok /\ last.err = NoErr)
    => /\ ~last.page.nil
       /\ last.page.uuid = prev.out
       /\ CallsOf(last.log, "logseq.Editor.createPage") = {}

-----------------------------------------------------------------------------
(* SpecLinks: EnsureLinkedPages invoked again and again, one invocation at *)
(* a time, on contents and property maps that hold hierarchical and plain  *)
(* links, over a network that may leave any of the first MaxScript calls   *)
(* of an invocation unanswered.                                            *)

nSlashA == <<"/", "A">>

\* the inputs of EnsureLinkedPages: a content and a property map
LinkInput(content, properties) == [content |-> content, properties |-> properties]

LinkInputs ==
    {LinkInput(<<"x", " ">> \o LinkTo(nAB) \o <<" ">> \o LinkTo(nC), NoProps),
     LinkInput(LinkTo(nAB) \o <<"!">>, NoProps),
     LinkInput(LinkTo(nABC), NoProps),
     LinkInput(LinkTo(nSlashA), NoProps),
     LinkInput(LinkTo(<<" ">> \o nAB \o <<" ">>), NoProps),
     LinkInput(<<>>, [k \in {"k1"} |-> SVal(LinkTo(nAB))]),
     LinkInput(LinkTo(nAB), [k \in {"k1"} |-> SVal(LinkTo(nAB))]),
     LinkInput(<<>>, [k \in {"k1"} |-> XVal(LinkTo(nAB))]),
     LinkInput(LinkTo(nAB) \o <<"!">>,
               [k \in {"k1", "k2"} |->
                   IF k = "k1" THEN XVal(LinkTo(nC)) ELSE SVal(<<"y">>)])}

LinkFaults == {Down}

InitLinks ==
    /\ store \in {EmptyStore("null"), WithPages(EmptyStore("[]"), <<nA>>)}
    /\ prev = None
    /\ last = None
    /\ procs = IdleProcs

EnsureLinkedPagesOp ==
    \E in \in LinkInputs, script \in Scripts(LinkFaults, MaxScript) :
        \E orders \in OrdersFor(in.properties) :
            LET content == in.content
                properties == in.properties
                r == EnsureLinkedPages(Ctx(store, script, orders),
                                       content, properties)
            IN /\ last = None
               /\ prev.n < MaxRuns
               /\ last' = [op |-> "EnsureLinkedPages", n |-> prev.n + 1,
                           content |-> content, properties |-> properties,
                           before |-> store,
                           out |-> r.content, outprops |-> r.properties,
                           log |-> r.c.log]
               /\ store' = r.c.store
               /\ UNCHANGED <<prev, procs>>

NextLinks == EnsureLinkedPagesOp \/ Return

SpecLinks == InitLinks /\ [][NextLinks]_vars

-----------------------------------------------------------------------------
(* Claims about EnsureLinkedPages.                                         *)

\* segments 1..i of parts joined by "/"
RECURSIVE JoinTo(_, _)
JoinTo(parts, i) ==
    IF i = 1 THEN parts[1] ELSE JoinTo(parts, i - 1) \o <<"/">> \o parts[i]

\* the prefix names of a link name
PrefixNames(link) == {JoinTo(Split(link), i) : i \in 1..Len(Split(link))}

IsHierarchical(link) == Contains(link, <<"/">>)

\* the hierarchical and the plain links of a text
HierLinks(text) == {l \in Range(extractLinks(text)) : IsHierarchical(l)}
PlainLinks(text) == {l \in Range(extractLinks(text)) : ~IsHierarchical(l)}

\* no segment of the link name is empty
NoEmptySegment(link) == \A i \in DOMAIN Split(link) : Split(link)[i] # <<>>

NamesOf(pages) == {q.name : q \in pages}

AllOk(log) == \A i \in DOMAIN log : log[i].ok

\* C2 (as claimed): for every hierarchical link name with N segments, after
\* EnsureLinkedPages has processed it the N prefix names (segments 1..i
\* joined by "/") are resolvable pages, no other page has been added, and
\* the create calls are issued in ascending depth order.  Stated for runs
\* in which every remote call succeeds and for the prefixes that are not
\* the empty name.
C2_WalkMaterializesPrefixes ==
    (/\ last.op = "EnsureLinkedPages"
     /\ DOMAIN last.properties = {}
     /\ AllOk(last.log))
    => \A l \in HierLinks(last.content) :
          /\ \A x \in PrefixNames(l) \ {<<>>} : PageNamed(store, x) # {}
          /\ NamesOf(store.pages) \ NamesOf(last.before.pages)
                \subseteq PrefixNames(l) \cup PlainLinks(last.content)
          /\ \A i, j \in CallsOf(last.log, "logseq.Editor.createPage") :
                (/\ i < j
                 /\ last.log[i].a[1] \in PrefixNames(l)
                 /\ last.log[j].a[1] \in PrefixNames(l))
                => Len(last.log[i].a[1]) < Len(last.log[j].a[1])

\* an identifier was obtained for the page named link, the leaf of its
\* walk: a lookup of it succeeded and the page was there, or its creation
\* succeeded
LeafObtained(rec, link) ==
    \E i \in DOMAIN rec.log :
        /\ rec.log[i].a = <<link>>
        /\ rec.log[i].ok
        /\ \/ rec.log[i].m = "logseq.Editor.createPage"
           \/ /\ rec.log[i].m = "logseq.Editor.getPage"
              /\ PageNamed(rec.before, link) # {}

\* the content returned for a content that holds [[A/B]] holds the
\* reference to the page A/B of the store and no [[A/B]] any more, and
\* every plain link of the input is still a link of the output
RewrittenAB(rec, st) ==
    /\ PageNamed(st, nAB) # {}
    /\ \A q \in PageNamed(st, nAB) :
          /\ Contains(rec.out, RefTo(q.uuid))
          /\ rec.out = ReplaceAll(rec.content, LinkTo(nAB), RefTo(q.uuid))
    /\ ~Contains(rec.out, LinkTo(nAB))
    /\ PlainLinks(rec.content) \subseteq PlainLinks(rec.out)
    /\ \A l \in PlainLinks(rec.content) : Contains(rec.out, LinkTo(l))

C4_SecondRunCreatesNothing ==
    (/\ last.op = "EnsureLinkedPages" /\ prev.op = "EnsureLinkedPages"
     /\ HierLinks(prev.subject) # {}
     /\ HierLinks(prev.subject) = HierLinks(last.content)
     /\ \A l \in HierLinks(last.content) :
           /\ NoEmptySegment(l)
           /\ \A x \in PrefixNames(l) : PageNamed(last.before, x) # {}
     /\ extractBlockRefs(prev.out) # <<>>)
    => /\ \A i \in CallsOf(last.log, "logseq.Editor.createPage") :
             \A l \in HierLinks(last.content) :
                last.log[i].a[1] \notin PrefixNames(l)
       /\ extractBlockRefs(last.out) = extractBlockRefs(prev.out)

\* the type of a property value that is not a Go string
NonString(v) == v.t = "x"

\* the links that only the non-string values of a property map hold
NonStringOnlyLinks(content, properties) ==
    UNION {Range(extractLinks(properties[k].x)) :
               k \in {j \in DOMAIN properties : NonString(properties[j])}}
    \ (Range(extractLinks(content))
       \cup UNION {Range(extractLinks(properties[k].s)) :
                       k \in {j \in DOMAIN properties : ~NonString(properties[j])}})

\* C5: EnsureLinkedPages leaves every non-string property value unchanged
\* and never scans it for links: no remote call names a link that only a
\* non-string value holds, and for a map of non-string values only, the map
\* after the call equals the map before and a content without links and
\* references causes no remote call at all.
C5_NonStringValuesUntouched ==
    last.op = "EnsureLinkedPages"
    => /\ DOMAIN last.outprops = DOMAIN last.properties
       /\ \A k \in DOMAIN last.properties :
             NonString(last.properties[k])
             => last.outprops[k] = last.properties[k]
       /\ \A i \in DOMAIN last.log :
             last.log[i].a[1]
                \notin NonStringOnlyLinks(last.content, last.properties)
       /\ (\A k \in DOMAIN last.properties : NonString(last.properties[k]))
          => /\ last.outprops = last.properties
             /\ (extractLinks(last.content) = <<>>
                 /\ extractBlockRefs(last.content) = <<>>)
                => last.log = <<>>

\* a run on a map whose only value is not a string although it prints as
\* [[A/B]]: the map is as it was and nothing was asked of the store
C5_Witness ==
    /\ last.op = "EnsureLinkedPages"
    /\ last.properties = [k \in {"k1"} |-> XVal(LinkTo(nAB))]
    /\ last.outprops = last.properties
    /\ last.log = <<>>
    /\ PageNamed(store, nAB) = {}

-----------------------------------------------------------------------------
(* SpecInsert: the page Root is created, then blocks are inserted under it *)
(* whose content links to Ns/Child, over a network that may leave any of   *)
(* the first MaxInsertScript calls of an operation unanswered.             *)

MaxInsertScript == 8

cSee == <<"s", "e", "e", " ">> \o LinkTo(nNsChild)

InsertInputs ==
    {LinkInput(cSee, NoProps),
     LinkInput(cSee, [k \in {"k1"} |-> SVal(<<"x">>)]),
     LinkInput(<<"h", "i">>, NoProps)}

InitInsert ==
    /\ store \in {EmptyStore("null"), EmptyStore("[]")}
    /\ prev = None
    /\ last = None
    /\ procs = IdleProcs

CreateRootOp ==
    \E script \in Scripts(LinkFaults, MaxScript) :
        LET r == CreatePage(Ctx(store, script, <<>>), nRoot, NoProps)
        IN /\ last = None
           /\ prev.n < MaxRuns
           /\ PageNamed(store, nRoot) = {}
           /\ last' = [op |-> "CreatePage", n |-> prev.n + 1, name |-> nRoot,
                       properties |-> NoProps, existed |-> FALSE,
                       page |-> r.page, err |-> r.err, log |-> r.c.log]
           /\ store' = r.c.store
           /\ UNCHANGED <<prev, procs>>

\* InsertBlock under the page Root, by the identifier CreatePage returned
InsertBlockOp ==
    \E in \in InsertInputs, script \in Scripts(LinkFaults, MaxInsertScript) :
        \E root \in PageNamed(store, nRoot) :
            LET r == InsertBlock(Ctx(store, script, <<>>), root.uuid,
                                 in.content, in.properties)
            IN /\ last = None
               /\ prev.n < MaxRuns
               /\ last' = [op |-> "InsertBlock", n |-> prev.n + 1,
                           parent |-> root.uuid, content |-> in.content,
                           properties |-> in.properties, before |-> store,
                           block |-> r.block, err |-> r.err, log |-> r.c.log]
               /\ store' = r.c.store
               /\ UNCHANGED <<prev, procs>>

NextInsert == CreateRootOp \/ InsertBlockOp \/ Return

SpecInsert == InitInsert /\ [][NextInsert]_vars

\* the insertBlock call of the log sends, under the parent, "see " and the
\* reference to the page Ns/Child of the store, and Ns and Ns/Child exist
InsertedWithReference(rec, st) ==
    /\ PageNamed(st, nNs) # {}
    /\ PageNamed(st, nNsChild) # {}
    /\ Cardinality(CallsOf(rec.log, "logseq.Editor.insertBlock")) = 1
    /\ \A i \in CallsOf(rec.log, "logseq.Editor.insertBlock") :
          /\ rec.log[i].a[1] = rec.parent
          /\ \A q \in PageNamed(st, nNsChild) :
                /\ Contains(rec.log[i].a[2], RefTo(q.uuid))
                /\ rec.log[i].a[2] = <<"s", "e", "e", " ">> \o RefTo(q.uuid)
          /\ ~Contains(rec.log[i].a[2], LinkTo(nNsChild))

\* InsertBlock of "see [[Ns/Child]]" under Root on a store that holds
\* neither Ns nor Ns/Child
InsertsSeeChild(rec) ==
    /\ rec.op = "InsertBlock"
    /\ rec.content = cSee
    /\ PageNamed(rec.before, nNs) = {}
    /\ PageNamed(rec.before, nNsChild) = {}

CreateNeverFailed(rec, name) ==
    \A i \in CallsOf(rec.log, "logseq.Editor.createPage") :
        rec.log[i].a[1] = name => rec.log[i].ok

-----------------------------------------------------------------------------
(* SpecRace: two invocations of CreatePage(name, nil, nil) run             *)
(* concurrently against the same store.  An invocation takes two steps,    *)
(* its lookup and what follows it; each step holds at most one remote      *)
(* call, which the store serves atomically.                                *)

RaceNames == {nA, nAB}

RaceFaults == {Faithful, Fault(Down)}

InitRace ==
    /\ store \in {EmptyStore("null"), WithPages(EmptyStore("[]"), <<nA>>)}
    /\ prev = None
    /\ last = None
    /\ procs = IdleProcs

\* invocation i starts: c.GetPage(name)
Lookup(i) ==
    \E name \in RaceNames, d \in RaceFaults :
        LET g == GetPage(Ctx(store, <<d>>, <<>>), name)
        IN /\ procs[i].pc = "idle"
           /\ procs' = [procs EXCEPT ![i] =
                          [pc |-> "looked", name |-> name,
                           existing |-> g.page, lookupErr |-> g.err,
                           log |-> g.c.log]]
           /\ store' = g.c.store
           /\ UNCHANGED <<prev, last>>

\* invocation i goes on from its lookup to its end
Create(i) ==
    \E d \in RaceFaults :
        LET c == [Ctx(store, <<d>>, <<>>) EXCEPT !.log = procs[i].log]
            r == CreatePageAfterLookup(
                     [c |-> c, page |-> procs[i].existing,
                      err |-> procs[i].lookupErr],
                     procs[i].name, NoProps)
        IN /\ procs[i].pc = "looked"
           /\ procs' = [procs EXCEPT ![i] =
                          [pc |-> "done", name |-> procs[i].name,
                           existing |-> procs[i].existing,
                           lookupErr |-> procs[i].lookupErr,
                           page |-> r.page, err |-> r.err, log |-> r.c.log]]
           /\ store' = r.c.store
           /\ UNCHANGED <<prev, last>>

\* the caller of invocation i takes its result
Finish(i) ==
    /\ procs[i].pc = "done"
    /\ procs' = [procs EXCEPT ![i] = Idle]
    /\ UNCHANGED <<store, prev, last>>

NextRace == \E i \in {1, 2} : Lookup(i) \/ Create(i) \/ Finish(i)

SpecRace == InitRace /\ [][NextRace]_vars

\* invocation i has ended after a lookup that reported the page absent
EndedAfterAbsent(i) ==
    /\ procs[i].pc = "done"
    /\ procs[i].lookupErr = NoErr
    /\ procs[i].existing.nil

\* invocation i has issued createPage for its name
IssuedCreate(i) ==
    \E k \in CallsOf(procs[i].log, "logseq.Editor.createPage") :
        procs[i].log[k].a[1] = procs[i].name

\* C10: two concurrent CreatePage invocations are not coordinated: an
\* invocation whose lookup observed the page absent issues createPage for
\* the name whatever the other invocation has done meanwhile.
C10_CreateUncoordinated ==
    \A i \in {1, 2} : EndedAfterAbsent(i) => IssuedCreate(i)

\* both invocations, for the same name, observed it absent and both issued
\* createPage
C10_Witness ==
    /\ procs[1].pc = "done" /\ procs[2].pc = "done"
    /\ procs[1].name = procs[2].name
    /\ EndedAfterAbsent(1) /\ EndedAfterAbsent(2)
    /\ IssuedCreate(1) /\ IssuedCreate(2)
    /\ procs[1].log[2].ok /\ procs[2].log[2].ok

-----------------------------------------------------------------------------
(* SpecFacade: one operation of the client on a store that holds page A    *)
(* and a block under it, over a network that may answer any of the first   *)
(* MaxFacadeScript calls of the operation with a failure or with a         *)
(* response of another encoding than the store's.                          *)

MaxFacadeScript == 2

\* a store with one more block, holding content, under parent
WithBlock(st, parent, content) ==
    [st EXCEPT !.blocks = @ \cup {[uuid |-> BlockUuid(st.next),
                                   content |-> content, parent |-> parent]},
               !.next = @ + 1]

cX == <<"x">>
cAB == LinkTo(nAB)

FacadeStore == WithBlock(WithPages(EmptyStore("null"), <<nA>>), PageUuid(1), cX)

\* the identifiers of the page and of the block of FacadeStore, and an
\* identifier and a name the store does not hold
uPage == PageUuid(1)
uBlock == BlockUuid(2)
uNone == BlockUuid(7)

Ok200(body) == Wire(TRUE, 200, body)

\* the encodings a successful response may have: null, a bare identifier,
\* text that is not JSON, an object with a wrongly typed field, an array,
\* a block object, an object without identifier
Encodings ==
    {JNull, JStr(uBlock), JText, JBad, JList(<<JAtom("x")>>),
     JObj(BlockUuid(9), <<>>, <<"y">>), JObj(<<>>, <<>>, <<>>)}

FacadeFaults == {Down, Biz} \cup {Ok200(b) : b \in Encodings}

FacadeProps == {NoProps, [k \in {"k1"} |-> SVal(cX)], [k \in {"k1"} |-> SVal(cAB)]}

FacadeBatches ==
    {<<BlockContent(cX, NoProps, <<>>)>>,
     <<BlockContent(cAB, [k \in {"k1"} |-> SVal(cAB)],
                    <<BlockContent(cX, [k \in {"k2"} |-> SVal(cX)], <<>>)>>)>>}

InitFacade ==
    /\ store = FacadeStore
    /\ prev = None
    /\ last = None
    /\ procs = IdleProcs

FacadeGetPage ==
    \E x \in {nA, nC}, script \in Scripts(FacadeFaults, MaxFacadeScript) :
        LET r == GetPage(Ctx(store, script, <<>>), x)
        IN /\ last = None
           /\ last' = [op |-> "GetPage", n |-> 1, script |-> script,
                       before |-> store, page |-> r.page, err |-> r.err,
                       log |-> r.c.log]
           /\ store' = r.c.store
           /\ UNCHANGED <<prev, procs>>

FacadeGetBlock ==
    \E x \in {uBlock, uNone}, script \in Scripts(FacadeFaults, MaxFacadeScript) :
        LET r == GetBlock(Ctx(store, script, <<>>), x)
        IN /\ last = None
           /\ last' = [op |-> "GetBlock", n |-> 1, script |-> script,
                       before |-> store, block |-> r.block, err |-> r.err,
                       log |-> r.c.log]
           /\ store' = r.c.store
           /\ UNCHANGED <<prev, procs>>

FacadeCreatePage ==
    \E name \in {nA, nC}, properties \in FacadeProps,
       script \in Scripts(FacadeFaults, MaxFacadeScript) :
        LET r == CreatePage(Ctx(store, script, <<>>), name, properties)
        IN /\ last = None
           /\ last' = [op |-> "CreatePage", n |-> 1, script |-> script,
                       before |-> store, name |-> name, given |-> properties,
                       properties |-> r.properties,
                       page |-> r.page, err |-> r.err, log |-> r.c.log]
           /\ store' = r.c.store
           /\ UNCHANGED <<prev, procs>>

\* a map of two properties, and the orders in which the upsert loop of
\* UpdatePage, the third range statement over the map, may take its keys
TwoProps == [k \in {"k1", "k2"} |-> SVal(cX)]

UpdateOrders(properties) ==
    IF Cardinality(DOMAIN properties) < 2 THEN {<<>>}
    ELSE {<<<<"k1", "k2">>, <<"k1", "k2">>, o>> : o \in KeyOrders}

FacadeUpdatePage ==
    \E uuid \in {uPage, uNone},
       properties \in (FacadeProps \ {NoProps}) \cup {TwoProps},
       script \in Scripts(FacadeFaults, MaxFacadeScript) :
      \E orders \in UpdateOrders(properties) :
        LET r == UpdatePage(Ctx(store, script, orders), uuid, properties)
        IN /\ last = None
           /\ last' = [op |-> "UpdatePage", n |-> 1, script |-> script,
                       before |-> store, uuid |-> uuid, given |-> properties,
                       properties |-> r.properties,
                       page |-> r.page, err |-> r.err, log |-> r.c.log]
           /\ store' = r.c.store
           /\ UNCHANGED <<prev, procs>>

FacadeInsertBlock ==
    \E content \in {cX, cAB}, properties \in FacadeProps,
       script \in Scripts(FacadeFaults, MaxFacadeScript) :
        LET r == InsertBlock(Ctx(store, script, <<>>), uPage, content, properties)
        IN /\ last = None
           /\ last' = [op |-> "InsertBlock", n |-> 1, script |-> script,
                       before |-> store, content |-> content,
                       given |-> properties, properties |-> r.properties,
                       block |-> r.block, err |-> r.err, log |-> r.c.log]
           /\ store' = r.c.store
           /\ UNCHANGED <<prev, procs>>

FacadeInsertBatchBlock ==
    \E batch \in FacadeBatches,
       script \in Scripts(FacadeFaults, MaxFacadeScript) :
        LET r == InsertBatchBlock(Ctx(store, script, <<>>), uPage, batch)
        IN /\ last = None
           /\ last' = [op |-> "InsertBatchBlock", n |-> 1, script |-> script,
                       before |-> store, given |-> batch, batch |-> r.batch,
                       blocks |-> r.blocks, err |-> r.err, log |-> r.c.log]
           /\ store' = r.c.store
           /\ UNCHANGED <<prev, procs>>

FacadeUpdateBlock ==
    \E uuid \in {uBlock, uNone}, content \in {cX, cAB},
       properties \in FacadeProps,
       script \in Scripts(FacadeFaults, MaxFacadeScript) :
        LET r == UpdateBlock(Ctx(store, script, <<>>), uuid, content, properties)
        IN /\ last = None
           /\ last' = [op |-> "UpdateBlock", n |-> 1, script |-> script,
                       before |-> store, uuid |-> uuid, content |-> content,
                       given |-> properties, properties |-> r.properties,
                       block |-> r.block, err |-> r.err, log |-> r.c.log]
           /\ store' = r.c.store
           /\ UNCHANGED <<prev, procs>>

FacadeAppendBlockInPage ==
    \E content \in {cX, cAB},
       script \in Scripts(FacadeFaults, MaxFacadeScript) :
        LET r == AppendBlockInPage(Ctx(store, script, <<>>), nA, content)
        IN /\ last = None
           /\ last' = [op |-> "AppendBlockInPage", n |-> 1, script |-> script,
                       before |-> store, content |-> content,
                       block |-> r.block, err |-> r.err, log |-> r.c.log]
           /\ store' = r.c.store
           /\ UNCHANGED <<prev, procs>>

NextFacade ==
    \/ FacadeGetPage \/ FacadeGetBlock \/ FacadeCreatePage \/ FacadeUpdatePage
    \/ FacadeInsertBlock \/ FacadeInsertBatchBlock \/ FacadeUpdateBlock
    \/ FacadeAppendBlockInPage

SpecFacade == InitFacade /\ [][NextFacade]_vars

-----------------------------------------------------------------------------
(* Claims about the operations of SpecFacade.                              *)

\* the body the k-th call of the operation rec was answered with: the
\* scripted response, else the store's answer
AnswerTo(rec, k) ==
    IF k <= Len(rec.script) /\ rec.script[k].f = "wire"
    THEN rec.script[k].w.body
    ELSE Respond(rec.before, rec.log[k].m, rec.log[k].a, rec.log[k].p).body

\* the k-th call of rec was answered by the store
Served(rec, k) == k > Len(rec.script) \/ rec.script[k].f = "ok"

\* the calls of a log after the k-th
CallsAfter(log, k) == SubSeq(log, k + 1, Len(log))

\* rec returned what GetBlock(x) returns, GetBlock being the last call of
\* rec: its error when the call failed and, when the store answered, the
\* block x of the store st or nil
ReturnsGetBlock(rec, x, st) ==
    /\ rec.log[Len(rec.log)].m = "logseq.Editor.getBlock"
    /\ rec.log[Len(rec.log)].a = <<x>>
    /\ ~rec.log[Len(rec.log)].ok => rec.err # NoErr /\ rec.block.nil
    /\ Served(rec, Len(rec.log))
       => /\ rec.err = NoErr
          /\ IF BlocksMatching(st, x) = {} THEN rec.block.nil
             ELSE /\ ~rec.block.nil
                  /\ rec.block.uuid = x
                  /\ \E b \in BlocksMatching(st, x) :
                        rec.block.content = b.content

\* C11: after a successful updateBlock call, UpdateBlock returns the decoded
\* block with no further call when the response is a block object with a
\* non-empty uuid, returns GetBlock(that identifier) when the response is a
\* non-empty bare string, and GetBlock(the identifier it was called with)
\* in every other case.
C11_UpdateBlockEncodings ==
    (/\ last.op = "UpdateBlock"
     /\ CallsOf(last.log, "logseq.Editor.updateBlock") # {})
    => LET k == CHOOSE i \in CallsOf(last.log, "logseq.Editor.updateBlock") : TRUE
           body == AnswerTo(last, k)
       IN /\ CallsOf(last.log, "logseq.Editor.updateBlock") = {k}
          /\ last.log[k].ok
             => CASE body.t = "obj" /\ body.uuid # <<>> ->
                       /\ CallsAfter(last.log, k) = <<>>
                       /\ last.err = NoErr
                       /\ last.block = Entity(body.uuid, body.name, body.content)
                  [] body.t = "str" /\ body.s # <<>> ->
                       /\ Len(last.log) = k + 1
                       /\ ReturnsGetBlock(last, body.s, store)
                  [] OTHER ->
                       /\ Len(last.log) = k + 1
                       /\ ReturnsGetBlock(last, last.uuid, store)

\* an UpdateBlock of an identifier the store does not hold, answered with
\* the bare identifier of the block the store holds, returns that block
C11_Witness ==
    /\ last.op = "UpdateBlock"
    /\ last.uuid = uNone
    /\ last.log[1].m = "logseq.Editor.updateBlock"
    /\ last.log[1].ok
    /\ AnswerTo(last, 1) = JStr(uBlock)
    /\ Len(last.log) = 2
    /\ last.err = NoErr
    /\ last.block.uuid = uBlock

\* the remote write call of an operation: its method
WriteMethod(op) ==
    CASE op = "CreatePage" -> "logseq.Editor.createPage"
      [] op = "InsertBlock" -> "logseq.Editor.insertBlock"
      [] op = "InsertBatchBlock" -> "logseq.Editor.insertBatchBlock"
      [] op = "UpdateBlock" -> "logseq.Editor.updateBlock"
      [] op = "AppendBlockInPage" -> "logseq.Editor.appendBlockInPage"
      [] OTHER -> "none"

\* the positions in the log of rec of its remote write calls; those of
\* CreatePage are the createPage calls for the name it was given
WriteCalls(rec) ==
    {i \in CallsOf(rec.log, WriteMethod(rec.op)) :
        rec.op = "CreatePage" => rec.log[i].a = <<rec.name>>}

\* a response that is a bare identifier string, or an object that does not
\* match the entity shape
BareOrNeither(body) == (body.t = "str" /\ body.s # <<>>) \/ body.t = "badobj"

\* rec returned a complete entity and no error
ReturnsEntity(rec) ==
    /\ rec.err = NoErr
    /\ CASE rec.op = "CreatePage" -> ~rec.page.nil /\ rec.page.uuid # <<>>
         [] rec.op = "InsertBatchBlock" ->
               /\ rec.blocks # <<>>
               /\ \A i \in DOMAIN rec.blocks : rec.blocks[i].uuid # <<>>
         [] OTHER -> ~rec.block.nil /\ rec.block.uuid # <<>>

\* C12 (as claimed): InsertBlock, InsertBatchBlock and CreatePage, when
\* their remote call succeeds with a response that is a bare identifier
\* string or that matches neither the entity shape nor a string, still
\* return a complete entity (no error, no partial echo).  Stated for an
\* operation all of whose remote calls succeeded.
C12_WritesTolerateEncodings ==
    (/\ last.op \in {"InsertBlock", "InsertBatchBlock", "CreatePage"}
     /\ AllOk(last.log)
     /\ \E k \in WriteCalls(last) : BareOrNeither(AnswerTo(last, k)))
    => ReturnsEntity(last)

\* the texts a remote write call carries: its content arguments and the
\* string values of its property mapping
CarriedTexts(call) ==
    {call.a[i] : i \in 2..Len(call.a)}
    \cup {call.p[key].s : key \in {x \in DOMAIN call.p : call.p[x].t = "s"}}

\* C13 (as claimed): for InsertBlock, InsertBatchBlock, UpdateBlock and
\* CreatePage the link synchronization of the content and of the property
\* mapping completes before the remote write call is issued, so the call
\* never carries un-synchronized content or property values.  Stated for an
\* operation every call of which the store answered: the synchronization
\* then replaces every [[A/B]], and no write call carries the literal.
C13_WriteCarriesSynchronized ==
    (/\ last.op \in {"InsertBlock", "InsertBatchBlock", "UpdateBlock", "CreatePage"}
     /\ last.script = <<>>)
    => \A k \in WriteCalls(last) :
          \A text \in CarriedTexts(last.log[k]) : ~Contains(text, cAB)

\* rec returned the nil page or block
ReturnsNil(rec) ==
    IF rec.op \in {"CreatePage", "UpdatePage", "GetPage"} THEN rec.page.nil
    ELSE rec.block.nil

\* C14 (as claimed): CreatePage, UpdatePage, InsertBlock and UpdateBlock
\* return a non-nil page or block, or a non-nil error, for every sequence of
\* remote responses: never (nil, nil).
C14_EntityOrError ==
    last.op \in {"CreatePage", "UpdatePage", "InsertBlock", "UpdateBlock"}
    => ~(ReturnsNil(last) /\ last.err = NoErr)

\* the positions in the log of rec of the calls whose response rec decodes
\* into the entity it returns
DecodedCalls(rec) ==
    IF rec.op \in {"GetPage", "GetBlock"} THEN {1} ELSE WriteCalls(rec)

\* a body no operation can decode: text that is not JSON, or an object with
\* a wrongly typed field
Undecodable(body) == body.t \in {"text", "badobj"}

\* C15 (as claimed): whenever a successful remote response cannot be decoded
\* into the shape the operation expects, the operation returns an error;
\* stated for GetPage, GetBlock, CreatePage, InsertBlock and
\* InsertBatchBlock.
C15_DecodeFailureIsError ==
    last.op \in {"GetPage", "GetBlock", "CreatePage", "InsertBlock",
                 "InsertBatchBlock"}
    => \A k \in DecodedCalls(last) :
          (last.log[k].ok /\ Undecodable(AnswerTo(last, k)))
          => last.err # NoErr

-----------------------------------------------------------------------------
(* Claims about failures and retries.                                      *)

\* C16 (as claimed): if the initial lookup inside CreatePage fails with a
\* transport or business error, CreatePage returns an error and issues no
\* logseq.Editor.createPage call.  (Checked under SpecUpsert.)
C16_FailedLookupIsFatal ==
    (/\ last.op = "CreatePage"
     /\ last.log[1].m = "logseq.Editor.getPage"
     /\ ~last.log[1].ok)
    => /\ last.err # NoErr
       /\ CallsOf(last.log, "logseq.Editor.createPage") = {}

\* the call at position j of a log is the call at position i issued again
SameCall(log, i, j) ==
    /\ log[j].m = log[i].m
    /\ log[j].a = log[i].a
    /\ DOMAIN log[j].p = DOMAIN log[i].p
    /\ \A key \in DOMAIN log[i].p : log[j].p[key] = log[i].p[key]

\* C17 (as claimed): no operation retries: within one invocation (of
\* EnsureLinkedPages and of the CreatePage it calls) a remote call that
\* failed is never issued again with the same method and arguments.
\* (Checked under SpecLinks.)
C17_NoRetry ==
    last.op = "EnsureLinkedPages"
    => \A i \in DOMAIN last.log : \A j \in DOMAIN last.log :
          (i < j /\ ~last.log[i].ok) => ~SameCall(last.log, i, j)

\* the namespace invariant of a store: with a page of a hierarchical name,
\* a page exists for every "/"-prefix of the name
NamespaceInvariant(st) ==
    \A name \in NamesOf(st.pages) : PrefixNames(name) \subseteq NamesOf(st.pages)

\* C18 (as claimed): after any sequence of write operations (CreatePage
\* with any name among them) starting from a store that satisfies it, the
\* namespace invariant holds in the store.  Stated for CreatePage
\* invocations every remote call of which succeeded.  (Checked under
\* SpecUpsert.)
C18_NamespaceInvariantKept ==
    (last.op = "CreatePage" /\ AllOk(last.log) /\ NamespaceInvariant(last.before))
    => NamespaceInvariant(store)

-----------------------------------------------------------------------------
(* SpecExtract: the two extractors applied to texts made of at most        *)
(* MaxPieces pieces: links and references, padded, empty, repeated,        *)
(* unclosed, and plain characters.                                         *)

MaxPieces == 3

Pieces ==
    {<<"[", "[", "a", "]", "]">>, <<"[", "[", " ", "a", " ", "]", "]">>,
     <<"[", "[", "b", "/", "c", "]", "]">>, <<"[", "[", " ", "]", "]">>,
     <<"(", "(", "a", ")", ")">>, <<"(", "(", "\t", "u", "1", ")", ")">>,
     <<"[", "[">>, <<"]">>, <<"(">>, <<")", ")">>, <<"x", "\n">>}

RECURSIVE Texts(_)
Texts(n) ==
    IF n = 0 THEN {<<>>}
    ELSE Texts(n - 1) \cup {t \o q : t \in Texts(n - 1), q \in Pieces}

InitExtract ==
    /\ store = EmptyStore("null")
    /\ prev = None
    /\ last = None
    /\ procs = IdleProcs

\* ExtractLinks and extractBlockRefs on one text
Extract ==
    \E text \in Texts(MaxPieces) :
        /\ last = None
        /\ last' = [op |-> "Extract", n |-> 1, text |-> text,
                    links |-> extractLinks(text),
                    refs |-> extractBlockRefs(text)]
        /\ UNCHANGED <<store, prev, procs>>

NextExtract == Extract

SpecExtract == InitExtract /\ [][NextExtract]_vars

\* text[i..j] is a target in its delimiters: the opening pair, one or more
\* characters other than the closing one, the closing pair
Delimited(text, i, j, op, cl) ==
    /\ j >= i + 4
    /\ text[i] = op /\ text[i + 1] = op
    /\ text[j - 1] = cl /\ text[j] = cl
    /\ \A k \in (i + 2)..(j - 2) : text[k] # cl

\* the occurrences found in a text: the delimited stretches that do not
\* start inside another one
Found(text, op, cl) ==
    {m \in (1..Len(text)) \X (1..Len(text)) :
        /\ Delimited(text, m[1], m[2], op, cl)
        /\ \A i \in 1..(m[1] - 1) : ~Delimited(text, i, m[2], op, cl)}

Blank(ch) == ch \in {" ", "\t", "\n"}

\* the target of an occurrence, without the white space around it
Target(text, m) ==
    LET inner == (m[1] + 2)..(m[2] - 2)
        solid == {k \in inner : ~Blank(text[k])}
    IN IF solid = {} THEN <<>>
       ELSE SubSeq(text,
                   CHOOSE k \in solid : \A l \in solid : k <= l,
                   CHOOSE k \in solid : \A l \in solid : k >= l)

\* where a target first occurs in a text
FirstAt(text, op, cl, target) ==
    CHOOSE i \in 1..Len(text) :
        /\ \E m \in Found(text, op, cl) : m[1] = i /\ Target(text, m) = target
        /\ \A m \in Found(text, op, cl) : Target(text, m) = target => i <= m[1]

\* result lists the targets found in text: trimmed, the empty ones
\* discarded, each once, in order of first occurrence
ListsTargets(result, text, op, cl) ==
    /\ Range(result) = {Target(text, m) : m \in Found(text, op, cl)} \ {<<>>}
    /\ \A k \in DOMAIN result : \A l \in DOMAIN result :
          k < l => /\ result[k] # result[l]
                   /\ FirstAt(text, op, cl, result[k])
                      < FirstAt(text, op, cl, result[l])

\* C19: ExtractLinks and extractBlockRefs return the whitespace-trimmed
\* targets found in the text ([[...]] and ((...)) respectively), empty
\* targets discarded, duplicates removed, in order of first occurrence.
C19_ExtractorsListTargets ==
    last.op = "Extract"
    => /\ ListsTargets(last.links, last.text, "[", "]")
       /\ ListsTargets(last.refs, last.text, "(", ")")

\* a text with a padded link, the same link again and a reference
C19_Witness ==
    /\ last.op = "Extract"
    /\ last.text = <<"[", "[", " ", "a", " ", "]", "]", "[", "[", "a", "]", "]",
                     "(", "(", "\t", "u", "1", ")", ")">>
    /\ last.links = <<<<"a">>>>
    /\ last.refs = <<<<"u", "1">>>>

-----------------------------------------------------------------------------
(* The tool server (server.go).  A handler returns a tool result, a text   *)
(* or an error result (IsError set), and a Go error; a handler that        *)
(* dereferences a nil page or block panics and returns nothing.  The       *)
(* arguments of a call are a record of the tool's argument names; a string *)
(* argument is a Go string, a JSON-string argument ("properties", "tree")  *)
(* is empty, text that is not JSON, or the JSON value v; "bad" says the    *)
(* arguments do not decode into the handler's struct.                      *)

ModeGeneral == "general"
ModeOntological == "ontological"

\* a mode: LOGSEQ_MODE is not validated
Modes == {ModeGeneral, ModeOntological, "other"}

UpperCase ==
    <<"A", "B", "C", "D", "E", "F", "G", "H", "I", "J", "K", "L", "M",
      "N", "O", "P", "Q", "R", "S", "T", "U", "V", "W", "X", "Y", "Z">>
LowerCase ==
    <<"a", "b", "c", "d", "e", "f", "g", "h", "i", "j", "k", "l", "m",
      "n", "o", "p", "q", "r", "s", "t", "u", "v", "w", "x", "y", "z">>

\* r >= 'A' && r <= 'Z'
IsUpper(r) == \E i \in DOMAIN UpperCase : UpperCase[i] = r

\* unicode.ToLower(r), for the characters of the model
ToLower(r) ==
    IF IsUpper(r) THEN LowerCase[CHOOSE i \in DOMAIN UpperCase : UpperCase[i] = r]
    ELSE r

\* the loop of toSnakeCase from position i on
RECURSIVE toSnakeCaseFrom(_, _)
toSnakeCaseFrom(s, i) ==
    IF i > Len(s) THEN <<>>
    ELSE (IF i > 1 /\ IsUpper(s[i]) THEN <<"_">> ELSE <<>>)
         \o <<ToLower(s[i])>> \o toSnakeCaseFrom(s, i + 1)

toSnakeCase(s) == toSnakeCaseFrom(s, 1)

\* the loop of toSnakeCaseKeys over the keys ks: a later key overwrites an
\* earlier one of the same snake_case form
RECURSIVE SnakeEach(_, _, _)
SnakeEach(m, ks, newMap) ==
    IF ks = <<>> THEN newMap
    ELSE SnakeEach(m, Tail(ks),
                   [x \in {KeyOf(toSnakeCase(Spelling[Head(ks)]))} |-> m[Head(ks)]]
                   @@ newMap)

\* toSnakeCaseKeys(m) without the conversion
toSnakeCaseKeysMutKeep(c, m) == [c |-> Ranged(c), m |-> m]

\* toSnakeCaseKeys(m): [c, m]
toSnakeCaseKeys(c, m) ==
    [c |-> Ranged(c), m |-> SnakeEach(m, RangeKeys(c, m), NoProps)]

ToolText(c) == [c |-> c, result |-> "text", IsError |-> FALSE, err |-> NoErr]
ToolError(c) == [c |-> c, result |-> "error", IsError |-> TRUE, err |-> NoErr]
ToolPanic(c) == [c |-> c, result |-> "panic", IsError |-> FALSE, err |-> NoErr]

NoJsonArg == [t |-> "empty", v |-> NoProps]
BadJsonArg == [t |-> "invalid", v |-> NoProps]
JsonArg(v) == [t |-> "json", v |-> v]

\* the properties a handler works on in mode: [c, m]
InMode(c, mode, m) ==
    IF mode = ModeOntological THEN toSnakeCaseKeys(c, m) ELSE [c |-> c, m |-> m]

\* handleCreateEntity after CreatePage returned r
handleCreateEntityCreated(r) ==
    IF r.err # NoErr THEN ToolError(r.c)
    ELSE IF r.page.nil THEN ToolPanic(r.c)
    ELSE ToolText(r.c)

\* handleCreateEntity with the properties k.m
handleCreateEntityNamed(k, fullName) ==
    handleCreateEntityCreated(CreatePage(k.c, fullName, k.m))

\* MCPServer.handleCreateEntity
handleCreateEntity(c, mode, args) ==
    IF args.bad THEN ToolError(c)
    ELSE IF args.name = <<>> THEN ToolError(c)
    ELSE IF args.properties.t = "invalid" THEN ToolError(c)
    ELSE handleCreateEntityNamed(
             InMode(c, mode, args.properties.v),
             IF args.namespace # <<>>
             THEN args.namespace \o <<"/">> \o args.name
             ELSE args.name)

\* handleUpdatePage after UpdatePage returned r
handleUpdatePageUpdated(r) ==
    IF r.err # NoErr THEN ToolError(r.c)
    ELSE IF r.page.nil THEN ToolPanic(r.c)
    ELSE ToolText(r.c)

\* handleUpdatePage after GetPage returned g
handleUpdatePageFetched(g, properties) ==
    IF g.err # NoErr THEN ToolError(g.c)
    ELSE IF g.page.nil THEN ToolError(g.c)
    ELSE handleUpdatePageUpdated(UpdatePage(g.c, g.page.uuid, properties))

\* MCPServer.handleUpdatePage
handleUpdatePage(c, mode, args) ==
    IF args.bad THEN ToolError(c)
    ELSE IF args.uuid = <<>> THEN ToolError(c)
    ELSE IF args.properties.t \in {"empty", "invalid"} THEN ToolError(c)
    ELSE handleUpdatePageFetched(GetPage(c, args.uuid), args.properties.v)

\* Client.RenamePage(uuid, newName): [c, err]
RenamePage(c, uuid, newName) ==
    LET r == Remote(c, "logseq.Editor.renamePage", <<uuid, newName>>, NoProps)
    IN [c |-> r.c,
        err |-> IF r.err # NoErr THEN <<"failed to rename page: ">> \o r.err
                ELSE NoErr]

\* handleRenamePage after RenamePage returned r
handleRenamePageRenamed(r) ==
    IF r.err # NoErr THEN ToolError(r.c) ELSE ToolText(r.c)

\* a handler that renames whatever the lookup returned
handleRenamePageFetchedMutBlind(g, newName) ==
    handleRenamePageRenamed(RenamePage(g.c, g.page.uuid, newName))

\* handleRenamePage after GetPage returned g
handleRenamePageFetched(g, newName) ==
    IF g.err # NoErr THEN ToolError(g.c)
    ELSE IF g.page.nil THEN ToolError(g.c)
    ELSE handleRenamePageRenamed(RenamePage(g.c, g.page.uuid, newName))

\* MCPServer.handleRenamePage
handleRenamePage(c, mode, args) ==
    IF args.bad THEN ToolError(c)
    ELSE IF args.uuid = <<>> THEN ToolError(c)
    ELSE IF args.new_name = <<>> THEN ToolError(c)
    ELSE handleRenamePageFetched(GetPage(c, args.uuid), args.new_name)

\* handleCreateBlock after InsertBlock returned r
handleCreateBlockInserted(r) ==
    IF r.err # NoErr THEN ToolError(r.c)
    ELSE IF r.block.nil THEN ToolPanic(r.c)
    ELSE ToolText(r.c)

\* handleCreateBlock with the properties k.m
handleCreateBlockNamed(k, args) ==
    handleCreateBlockInserted(
        InsertBlock(k.c, args.parent_uuid, args.content, k.m))

\* MCPServer.handleCreateBlock (neither sibling nor before)
handleCreateBlock(c, mode, args) ==
    IF args.bad THEN ToolError(c)
    ELSE IF args.parent_uuid = <<>> THEN ToolError(c)
    ELSE IF args.content = <<>> THEN ToolError(c)
    ELSE IF args.properties.t = "invalid" THEN ToolError(c)
    ELSE handleCreateBlockNamed(InMode(c, mode, args.properties.v), args)

RECURSIVE transformTree(_, _)

\* transformTree after the rest of the blocks was transformed
transformTreeRest(rest, block) ==
    [c |-> rest.c, blocks |-> <<block>> \o rest.blocks]

\* transformTree after the children ch of its first block were transformed
transformTreeChildren(ch, k, blocks) ==
    transformTreeRest(transformTree(ch.c, Tail(blocks)),
                      BlockContent(Head(blocks).content, k.m, ch.blocks))

\* transformTree with the converted properties k.m of its first block
transformTreeKeys(k, blocks) ==
    transformTreeChildren(
        IF Len(Head(blocks).children) > 0
        THEN transformTree(k.c, Head(blocks).children)
        ELSE [c |-> k.c, blocks |-> <<>>],
        k, blocks)

\* the transformTree closure of handleCreateBlockTree: [c, blocks]
transformTree(c, blocks) ==
    IF blocks = <<>> THEN [c |-> c, blocks |-> <<>>]
    ELSE transformTreeKeys(toSnakeCaseKeys(c, Head(blocks).properties), blocks)

\* handleCreateBlockTree after InsertBatchBlock returned r
handleCreateBlockTreeInserted(r) ==
    IF r.err # NoErr THEN ToolError(r.c) ELSE ToolText(r.c)

\* handleCreateBlockTree with the batch t.blocks
handleCreateBlockTreeBatch(t, args) ==
    handleCreateBlockTreeInserted(
        InsertBatchBlock(t.c, args.parent_uuid, t.blocks))

\* MCPServer.handleCreateBlockTree (neither sibling nor before)
handleCreateBlockTree(c, mode, args) ==
    IF args.bad THEN ToolError(c)
    ELSE IF args.parent_uuid = <<>> THEN ToolError(c)
    ELSE IF args.tree.t = "empty" THEN ToolError(c)
    ELSE IF args.tree.t = "invalid" THEN ToolError(c)
    ELSE handleCreateBlockTreeBatch(
             IF mode = ModeOntological THEN transformTree(c, args.tree.v)
             ELSE [c |-> c, blocks |-> args.tree.v],
             args)

\* handleUpdateBlock after UpdateBlock returned r
handleUpdateBlockUpdated(r) ==
    IF r.err # NoErr THEN ToolError(r.c)
    ELSE IF r.block.nil THEN ToolPanic(r.c)
    ELSE ToolText(r.c)

\* handleUpdateBlock with the properties k.m
handleUpdateBlockNamed(k, args) ==
    handleUpdateBlockUpdated(UpdateBlock(k.c, args.uuid, args.content, k.m))

\* MCPServer.handleUpdateBlock
handleUpdateBlock(c, mode, args) ==
    IF args.bad THEN ToolError(c)
    ELSE IF args.uuid = <<>> THEN ToolError(c)
    ELSE IF args.properties.t = "invalid" THEN ToolError(c)
    ELSE handleUpdateBlockNamed(InMode(c, mode, args.properties.v), args)

\* Client.UpsertProperty(uuid, key, value): [c, err]
UpsertProperty(c, uuid, key, value) ==
    Remote(c, "logseq.Editor.upsertBlockProperty", <<uuid, <<key>>>>,
           [x \in {key} |-> SVal(value)])

\* handleUpsertProperty after UpsertProperty returned r
handleUpsertPropertyDone(r) ==
    IF r.err # NoErr THEN ToolError(r.c) ELSE ToolText(r.c)

\* MCPServer.handleUpsertProperty
handleUpsertProperty(c, mode, args) ==
    IF args.bad THEN ToolError(c)
    ELSE IF args.uuid = <<>> THEN ToolError(c)
    ELSE IF args.key = <<>> THEN ToolError(c)
    ELSE handleUpsertPropertyDone(
             UpsertProperty(c, args.uuid,
                            KeyOf(IF mode = ModeOntological
                                  THEN toSnakeCase(args.key) ELSE args.key),
                            args.value))

\* a registration: s.server.AddTool(mcp.NewTool(name, ...), handler), with
\* the arguments declared mcp.Required()
Tool(name, handler, required) ==
    [name |-> name, handler |-> handler, required |-> required]

\* the tools registered in every mode
CommonTools ==
    {Tool("read_graph_info", "handleReadGraphInfo", {}),
     Tool("query", "handleQuery", {"query"}),
     Tool("list_namespaces", "handleListNamespaces", {}),
     Tool("get_daily_journal", "handleGetDailyJournal", {}),
     Tool("create_entity", "handleCreateEntity", {"name"}),
     Tool("rename_page", "handleRenamePage", {"uuid", "new_name"}),
     Tool("read_namespace", "handleReadNamespace", {"namespace"}),
     Tool("add_tag", "handleAddTag", {"uuid", "tag"}),
     Tool("remove_tag", "handleRemoveTag", {"uuid", "tag"}),
     Tool("remove_property", "handleRemoveProperty", {"uuid", "key"}),
     Tool("add_property", "handleUpsertProperty", {"uuid", "key", "value"})}

\* the tools registered under s.mode == ModeOntological
OntologicalTools ==
    {Tool("read_entity", "handleReadPage", {"uuid"}),
     Tool("update_entity", "handleUpdatePage", {"uuid", "properties"}),
     Tool("delete_entity", "handleDeletePage", {"uuid"}),
     Tool("read_entry", "handleReadBlock", {"uuid"}),
     Tool("update_entry", "handleUpdateBlock", {"uuid", "content"}),
     Tool("remove_entry", "handleDeleteBlock", {"uuid"}),
     Tool("append_entry_to_entity", "handleAppendBlock", {"uuid", "content"}),
     Tool("create_entry", "handleCreateBlock", {"parent_uuid", "content"}),
     Tool("create_entry_tree", "handleCreateBlockTree", {"parent_uuid", "tree"})}

\* the tools registered under s.mode == ModeGeneral
GeneralTools ==
    {Tool("read_page", "handleReadPage", {"uuid"}),
     Tool("create_pages", "handleCreatePages", {"pages"}),
     Tool("update_page", "handleUpdatePage", {"uuid", "properties"}),
     Tool("delete_page", "handleDeletePage", {"uuid"}),
     Tool("delete_pages", "handleDeletePages", {"uuids"}),
     Tool("create_namespace", "handleCreateNamespace", {"namespace"}),
     Tool("read_block", "handleReadBlock", {"uuid"}),
     Tool("append_block", "handleAppendBlock", {"uuid", "content"}),
     Tool("update_block", "handleUpdateBlock", {"uuid", "content"}),
     Tool("remove_block", "handleDeleteBlock", {"uuid"}),
     Tool("remove_blocks", "handleDeleteBlocks", {"uuids"}),
     Tool("create_block", "handleCreateBlock", {"parent_uuid", "content"}),
     Tool("create_block_tree", "handleCreateBlockTree", {"parent_uuid", "tree"})}

\* registerTools with create_entity registered in ontological mode only
registerToolsMutEntity(mode) ==
    (CommonTools \ {t \in CommonTools : t.name = "create_entity"})
    \cup (IF mode = ModeOntological
          THEN OntologicalTools \cup {t \in CommonTools : t.name = "create_entity"}
          ELSE {})
    \cup (IF mode = ModeGeneral THEN GeneralTools ELSE {})

\* MCPServer.registerTools: the tools of a server in mode
registerTools(mode) ==
    CommonTools
    \cup (IF mode = ModeOntological THEN OntologicalTools ELSE {})
    \cup (IF mode = ModeGeneral THEN GeneralTools ELSE {})

-----------------------------------------------------------------------------
(* SpecTools: one call of a registered tool of a server in some mode, with *)
(* every kind of argument set, on the store of SpecFacade, over a network  *)
(* that may answer one of the first MaxToolScript calls with a failure,    *)
(* with "not found" or with a page the store does not hold.                *)

MaxToolScript == 3

ToolFaults ==
    {Down, Ok200(JNull), Ok200(JObj(PageUuid(9), nC, <<>>))}

\* the "properties" arguments: camel-case keys, two of them of the same
\* snake_case form
ToolPropsArgs ==
    {NoJsonArg, BadJsonArg,
     JsonArg([k \in {"Ab"} |-> SVal(cX)]),
     JsonArg([k \in {"aB", "a_b"} |-> SVal(IF k = "aB" THEN cX ELSE cAB)])}

\* the "tree" arguments: the second has a block below a block
ToolTreeArgs ==
    {NoJsonArg, BadJsonArg,
     JsonArg(<<BlockContent(cX, [k \in {"aB"} |-> SVal(cX)],
                 <<BlockContent(cX, [k \in {"Ab"} |-> SVal(cX)], <<>>)>>)>>)}

\* arguments that do not decode into the handler's struct
Undecoded(args) == [args EXCEPT !.bad = TRUE]

\* the orders of the first range statement over the keys of a JSON-string
\* argument
ToolOrders(arg) ==
    IF arg.t # "json" \/ Cardinality(DOMAIN arg.v) < 2 THEN {<<>>}
    ELSE {<<o>> : o \in {<<"aB", "a_b">>, <<"a_b", "aB">>}}

InitTools ==
    /\ store = FacadeStore
    /\ prev = None
    /\ last = None
    /\ procs = IdleProcs

\* the record of a call of tool t in mode that ended with r
Handled(t, mode, args, script, r) ==
    [op |-> t.name, n |-> 1, handler |-> t.handler, required |-> t.required,
     mode |-> mode, registered |-> {x.name : x \in registerTools(mode)},
     args |-> args, script |-> script, before |-> store,
     result |-> r.result, IsError |-> r.IsError, err |-> r.err,
     log |-> r.c.log]

\* the tools of a server in mode that handler serves
Serving(mode, handler) == {t \in registerTools(mode) : t.handler = handler}

ToolCreateEntity ==
    \E mode \in Modes, script \in OneFault(ToolFaults, MaxToolScript),
       name \in {<<>>, nA, nC}, namespace \in {<<>>, nA},
       properties \in ToolPropsArgs, bad \in BOOLEAN :
        \E t \in Serving(mode, "handleCreateEntity"),
           orders \in ToolOrders(properties) :
            /\ last = None
            /\ bad => name = nA /\ namespace = <<>> /\ properties = NoJsonArg
            /\ last' = Handled(t, mode,
                   [bad |-> bad, name |-> name, namespace |-> namespace,
                    properties |-> properties], script,
                   handleCreateEntity(Ctx(store, script, orders), mode,
                       [bad |-> bad, name |-> name, namespace |-> namespace,
                        properties |-> properties]))
            /\ store' = handleCreateEntity(Ctx(store, script, orders), mode,
                       [bad |-> bad, name |-> name, namespace |-> namespace,
                        properties |-> properties]).c.store
            /\ UNCHANGED <<prev, procs>>

ToolUpdatePage ==
    \E mode \in Modes, script \in OneFault(ToolFaults, MaxToolScript),
       uuid \in {<<>>, nA, uNone}, properties \in ToolPropsArgs,
       bad \in BOOLEAN :
        \E t \in Serving(mode, "handleUpdatePage"),
           orders \in ToolOrders(properties) :
            /\ last = None
            /\ bad => uuid = nA /\ properties = NoJsonArg
            /\ last' = Handled(t, mode,
                   [bad |-> bad, uuid |-> uuid, properties |-> properties],
                   script,
                   handleUpdatePage(Ctx(store, script, orders), mode,
                       [bad |-> bad, uuid |-> uuid, properties |-> properties]))
            /\ store' = handleUpdatePage(Ctx(store, script, orders), mode,
                       [bad |-> bad, uuid |-> uuid,
                        properties |-> properties]).c.store
            /\ UNCHANGED <<prev, procs>>

ToolCreateBlock ==
    \E mode \in Modes, script \in OneFault(ToolFaults, MaxToolScript),
       parent \in {<<>>, uPage, uNone}, content \in {<<>>, cX},
       properties \in ToolPropsArgs, bad \in BOOLEAN :
        \E t \in Serving(mode, "handleCreateBlock"),
           orders \in ToolOrders(properties) :
            /\ last = None
            /\ bad => parent = uPage /\ content = cX /\ properties = NoJsonArg
            /\ last' = Handled(t, mode,
                   [bad |-> bad, parent_uuid |-> parent, content |-> content,
                    properties |-> properties], script,
                   handleCreateBlock(Ctx(store, script, orders), mode,
                       [bad |-> bad, parent_uuid |-> parent, content |-> content,
                        properties |-> properties]))
            /\ store' = handleCreateBlock(Ctx(store, script, orders), mode,
                       [bad |-> bad, parent_uuid |-> parent, content |-> content,
                        properties |-> properties]).c.store
            /\ UNCHANGED <<prev, procs>>

ToolCreateBlockTree ==
    \E mode \in Modes, script \in OneFault(ToolFaults, MaxToolScript),
       parent \in {<<>>, uPage, uNone}, tree \in ToolTreeArgs, bad \in BOOLEAN :
        \E t \in Serving(mode, "handleCreateBlockTree") :
            /\ last = None
            /\ bad => parent = uPage /\ tree = NoJsonArg
            /\ last' = Handled(t, mode,
                   [bad |-> bad, parent_uuid |-> parent, tree |-> tree], script,
                   handleCreateBlockTree(Ctx(store, script, <<>>), mode,
                       [bad |-> bad, parent_uuid |-> parent, tree |-> tree]))
            /\ store' = handleCreateBlockTree(Ctx(store, script, <<>>), mode,
                       [bad |-> bad, parent_uuid |-> parent,
                        tree |-> tree]).c.store
            /\ UNCHANGED <<prev, procs>>

ToolUpdateBlock ==
    \E mode \in Modes, script \in OneFault(ToolFaults, MaxToolScript),
       uuid \in {<<>>, uBlock, uNone}, content \in {<<>>, cX},
       properties \in ToolPropsArgs, bad \in BOOLEAN :
        \E t \in Serving(mode, "handleUpdateBlock"),
           orders \in ToolOrders(properties) :
            /\ last = None
            /\ bad => uuid = uBlock /\ content = cX /\ properties = NoJsonArg
            /\ last' = Handled(t, mode,
                   [bad |-> bad, uuid |-> uuid, content |-> content,
                    properties |-> properties], script,
                   handleUpdateBlock(Ctx(store, script, orders), mode,
                       [bad |-> bad, uuid |-> uuid, content |-> content,
                        properties |-> properties]))
            /\ store' = handleUpdateBlock(Ctx(store, script, orders), mode,
                       [bad |-> bad, uuid |-> uuid, content |-> content,
                        properties |-> properties]).c.store
            /\ UNCHANGED <<prev, procs>>

ToolUpsertProperty ==
    \E mode \in Modes, script \in OneFault(ToolFaults, MaxToolScript),
       uuid \in {<<>>, uPage, uBlock}, key \in {<<>>, Spelling["aB"], Spelling["Ab"]},
       value \in {<<>>, cX, cAB}, bad \in BOOLEAN :
        \E t \in Serving(mode, "handleUpsertProperty") :
            /\ last = None
            /\ bad => uuid = uPage /\ key = Spelling["aB"] /\ value = cX
            /\ last' = Handled(t, mode,
                   [bad |-> bad, uuid |-> uuid, key |-> key, value |-> value],
                   script,
                   handleUpsertProperty(Ctx(store, script, <<>>), mode,
                       [bad |-> bad, uuid |-> uuid, key |-> key, value |-> value]))
            /\ store' = handleUpsertProperty(Ctx(store, script, <<>>), mode,
                       [bad |-> bad, uuid |-> uuid, key |-> key,
                        value |-> value]).c.store
            /\ UNCHANGED <<prev, procs>>

ToolRenamePage ==
    \E mode \in Modes, script \in OneFault(ToolFaults, MaxToolScript),
       uuid \in {<<>>, nA, uNone}, new_name \in {<<>>, nC}, bad \in BOOLEAN :
        \E t \in Serving(mode, "handleRenamePage") :
            /\ last = None
            /\ bad => uuid = nA /\ new_name = nC
            /\ last' = Handled(t, mode,
                   [bad |-> bad, uuid |-> uuid, new_name |-> new_name], script,
                   handleRenamePage(Ctx(store, script, <<>>), mode,
                       [bad |-> bad, uuid |-> uuid, new_name |-> new_name]))
            /\ store' = handleRenamePage(Ctx(store, script, <<>>), mode,
                       [bad |-> bad, uuid |-> uuid,
                        new_name |-> new_name]).c.store
            /\ UNCHANGED <<prev, procs>>

NextTools ==
    \/ ToolCreateEntity
    \/ ToolUpdatePage
    \/ ToolRenamePage
    \/ ToolCreateBlock
    \/ ToolCreateBlockTree
    \/ ToolUpdateBlock
    \/ ToolUpsertProperty

SpecTools == InitTools /\ [][NextTools]_vars

\* a call of a tool handler
ToolCall(rec) == rec.op # "none" /\ rec.op \in rec.registered

\* C20 (as claimed): every tool handler, for every argument set and every
\* sequence of remote responses, completes with a non-nil tool result and a
\* nil Go error, every failure being a result with IsError set.
C20_HandlersAlwaysAnswer ==
    ToolCall(last)
    => /\ last.result \in {"text", "error"}
       /\ last.err = NoErr
       /\ last.result = "error" => last.IsError

\* the JSON-string arguments
JsonArgs == {"properties", "tree"}

\* argument a of the call is missing or empty
Empty(args, a) ==
    IF a \in JsonArgs THEN args[a].t = "empty" ELSE args[a] = <<>>

\* a JSON-string argument of the call is malformed
Malformed(args) == \E a \in DOMAIN args \cap JsonArgs : args[a].t = "invalid"

\* C21 (as claimed): for every tool, if an argument declared Required in
\* its registration is missing or empty, or a JSON-string argument is
\* malformed, the handler returns an IsError result and issues no remote
\* call to the store.
C21_RequiredArgumentsEnforced ==
    (/\ ToolCall(last)
     /\ \/ \E a \in last.required : Empty(last.args, a)
        \/ Malformed(last.args))
    => last.IsError /\ last.log = <<>>

\* the spellings of the property keys the arguments of a call supply
Supplied(args) ==
    (IF "properties" \in DOMAIN args
     THEN {Spelling[k] : k \in DOMAIN args.properties.v} ELSE {})
    \cup (IF "tree" \in DOMAIN args /\ args.tree.t = "json"
          THEN {Spelling[k] : k \in DOMAIN BatchProperties(args.tree.v)} ELSE {})
    \cup (IF "key" \in DOMAIN args THEN {args.key} ELSE {})

\* the spellings of the property keys the remote calls of a log carry
SentKeys(log) ==
    UNION {{Spelling[k] : k \in DOMAIN log[i].p} : i \in DOMAIN log}

\* the snake_case form of a key: every letter in lower case, an underscore
\* before each letter that was upper case and not the first
RECURSIVE SnakeCaseForm(_)
SnakeCaseForm(s) ==
    IF s = <<>> THEN <<>>
    ELSE SnakeCaseForm(SubSeq(s, 1, Len(s) - 1))
         \o (IF Len(s) > 1 /\ IsUpper(s[Len(s)]) THEN <<"_">> ELSE <<>>)
         \o <<ToLower(s[Len(s)])>>

\* C22: in ontological mode every property key that create_entity,
\* create_entry, create_entry_tree (for blocks at every depth), update_entry
\* and add_property send to the store is the snake_case form of a supplied
\* key and contains no uppercase ASCII letter.
C22_OntologicalKeysSnakeCase ==
    (/\ ToolCall(last)
     /\ last.mode = ModeOntological
     /\ last.op \in {"create_entity", "create_entry", "create_entry_tree",
                     "update_entry", "add_property"})
    => \A key \in SentKeys(last.log) :
          /\ \E given \in Supplied(last.args) : key = SnakeCaseForm(given)
          /\ \A i \in DOMAIN key : ~IsUpper(key[i])

\* a tree of two depths was inserted in ontological mode and the call
\* carried the keys of both blocks, supplied as aB and Ab
C22_Witness ==
    /\ ToolCall(last)
    /\ last.mode = ModeOntological
    /\ last.op = "create_entry_tree"
    /\ Supplied(last.args) = {<<"a", "B">>, <<"A", "b">>}
    /\ SentKeys(last.log) = {<<"a", "_", "b">>, <<"a", "b">>}

\* the spellings of the keys the property upserts of a log carry
UpsertedKeys(log) ==
    UNION {{Spelling[k] : k \in DOMAIN log[i].p} :
              i \in CallsOf(log, "logseq.Editor.upsertBlockProperty")}

\* C23 (as claimed): in ontological mode update_entity normalizes every
\* supplied property key to snake_case before the key is sent to the store
\* in a property upsert.
C23_UpdateEntityKeysSnakeCase ==
    (/\ ToolCall(last)
     /\ last.mode = ModeOntological
     /\ last.op = "update_entity")
    => \A key \in UpsertedKeys(last.log) :
          /\ \E given \in Supplied(last.args) : key = SnakeCaseForm(given)
          /\ \A i \in DOMAIN key : ~IsUpper(key[i])

\* the values the property upserts of a log carry
UpsertedValues(log) ==
    UNION {{log[i].p[k].s : k \in DOMAIN log[i].p} :
              i \in CallsOf(log, "logseq.Editor.upsertBlockProperty")}

\* C24 (as claimed): add_property applies smart link management to its
\* value: when the value contains [[A/B]], the page A/B is created if
\* missing and the value sent to the store carries the link as a ((uuid))
\* reference.  Stated for a call every remote call of which was served.
C24_AddPropertyManagesLinks ==
    (/\ ToolCall(last)
     /\ last.op = "add_property"
     /\ ~last.IsError
     /\ last.script = <<>>
     /\ Contains(last.args.value, LinkTo(nAB)))
    => /\ PageNamed(store, nAB) # {}
       /\ \A value \in UpsertedValues(last.log) :
             /\ ~Contains(value, LinkTo(nAB))
             /\ \E q \in PageNamed(store, nAB) : Contains(value, RefTo(q.uuid))

\* the tools the claim calls general-only and ontological-only
GeneralOnly ==
    {"read_page", "create_pages", "update_page", "delete_page", "delete_pages",
     "create_namespace", "read_block", "append_block", "update_block",
     "remove_block", "remove_blocks", "create_block", "create_block_tree"}

OntologicalOnly ==
    {"read_entity", "update_entity", "delete_entity", "read_entry",
     "update_entry", "remove_entry", "append_entry_to_entity", "create_entry",
     "create_entry_tree"}

\* the tools of some mode that are of neither list
Remaining ==
    UNION {{t.name : t \in registerTools(mode)} : mode \in Modes}
    \ (GeneralOnly \cup OntologicalOnly)

\* C25: the set of registered tools depends only on the mode: the
\* general-only tools are registered exactly in general mode, the
\* ontological-only tools exactly in ontological mode, and the remaining
\* tools in both.
C25_ToolsByMode ==
    ToolCall(last)
    => /\ \A t \in GeneralOnly :
             t \in last.registered <=> last.mode = ModeGeneral
       /\ \A t \in OntologicalOnly :
             t \in last.registered <=> last.mode = ModeOntological
       /\ last.mode \in {ModeGeneral, ModeOntological}
          => Remaining \subseteq last.registered

\* update_entity was called on a server in ontological mode, which has no
\* update_page but has create_entity
C25_Witness ==
    /\ ToolCall(last)
    /\ last.mode = ModeOntological
    /\ last.op = "update_entity"
    /\ "update_page" \notin last.registered
    /\ "create_entity" \in last.registered

-----------------------------------------------------------------------------
(* SpecTags: one AddTag on a store whose page A has no block, or one block *)
(* that is plain, ends in a space, is already tagged, or carries a longer  *)
(* tag, over a network that answers at most one of the first MaxTagScript  *)
(* calls in place of the store.                                            *)

MaxTagScript == 6

tT == <<"t">>

TagStores ==
    {WithPages(EmptyStore("null"), <<nA>>)}
    \cup {WithBlock(WithPages(EmptyStore("null"), <<nA>>), PageUuid(1), content) :
             content \in {cX, <<"x", " ">>, <<"x", " ", "#", "t">>,
                          <<"#", "t", "s">>}}

TagFaults ==
    {Down, Ok200(JNull), Ok200(JList(<<>>)),
     Ok200(JObj(BlockUuid(2), <<>>, <<"y">>))}

InitTags ==
    /\ store \in TagStores
    /\ prev = None
    /\ last = None
    /\ procs = IdleProcs

AddTagOp ==
    \E uuid \in {nA, uPage, uBlock, uNone}, tag \in {tT, <<"#">> \o tT},
       script \in OneFault(TagFaults, MaxTagScript) :
        /\ last = None
        /\ last' = [op |-> "AddTag", n |-> 1, script |-> script,
                   before |-> store, uuid |-> uuid, tag |-> tag,
                   err |-> AddTag(Ctx(store, script, <<>>), uuid, tag).err,
                   log |-> AddTag(Ctx(store, script, <<>>), uuid, tag).c.log]
        /\ store' = AddTag(Ctx(store, script, <<>>), uuid, tag).c.store
        /\ UNCHANGED <<prev, procs>>

NextTags == AddTagOp

SpecTags == InitTags /\ [][NextTags]_vars

\* the methods of the calls of a log, in order
Methods(log) == [i \in DOMAIN log |-> log[i].m]

\* the page that identifier x names in store st, and its blocks
PageOf(st, x) == CHOOSE q \in PagesMatching(st, x) : TRUE
TreeOf(st, x) == PageBlocksFrom(st, PageOf(st, x), 1)

\* the fallback chain of rec: getBlock(id), getPage(id), getBlock(page
\* uuid), getPageBlocksTree(page uuid), and one appendBlockInPage with
\* empty content when the page has no blocks
ChainOf(rec) ==
    <<[m |-> "logseq.Editor.getBlock", a |-> <<rec.uuid>>],
      [m |-> "logseq.Editor.getPage", a |-> <<rec.uuid>>],
      [m |-> "logseq.Editor.getBlock", a |-> <<PageOf(rec.before, rec.uuid).uuid>>],
      [m |-> "logseq.Editor.getPageBlocksTree",
       a |-> <<PageOf(rec.before, rec.uuid).uuid>>]>>
    \o (IF TreeOf(rec.before, rec.uuid) = <<>>
        THEN <<[m |-> "logseq.Editor.appendBlockInPage", a |-> <<rec.uuid, <<>>>>]>>
        ELSE <<>>)

\* the first calls of rec are its fallback chain
FollowsChain(rec) ==
    /\ Len(rec.log) >= Len(ChainOf(rec))
    /\ \A i \in DOMAIN ChainOf(rec) :
          /\ rec.log[i].m = ChainOf(rec)[i].m
          /\ rec.log[i].a = ChainOf(rec)[i].a

\* the block the chain of rec ends on: the first block of the tree, or the
\* block appended to the empty page
TargetOf(rec) ==
    IF TreeOf(rec.before, rec.uuid) # <<>>
    THEN [uuid |-> TreeOf(rec.before, rec.uuid)[1].uuid,
          content |-> TreeOf(rec.before, rec.uuid)[1].content]
    ELSE [uuid |-> BlockUuid(rec.before.next), content |-> <<>>]

ChainServed(rec) ==
    \A k \in DOMAIN rec.script :
        rec.script[k].f = "wire"
        => /\ k = Len(ChainOf(rec)) + 1
           /\ rec.script[k].w.net
           /\ ~IsError(rec.script[k].w.status)

-----------------------------------------------------------------------------
(* SpecJournal: one GetDailyJournal, the network answering its three calls *)
(* (getTodayJournalPage, q, datascriptQuery) with any wire responses.      *)

jPage == JObj(PageUuid(1), nA, <<>>)
jMap == JObj(<<>>, nA, <<>>)

TodayWires ==
    {Down, Biz, Wire(TRUE, 500, JText)}
    \cup {Ok200(b) : b \in {JNull, JList(<<>>), JText, JAtom("x"), jPage, jMap,
                            JList(<<jPage>>)}}

JournalWires ==
    {Down, Wire(TRUE, 500, JText)}
    \cup {Ok200(b) : b \in {JNull, JList(<<>>), JText, jPage,
                            JList(<<jPage>>), JList(<<jMap>>),
                            JList(<<JList(<<jPage>>)>>), JList(<<JAtom("x")>>),
                            JList(<<JNull>>), JList(<<JList(<<JNull>>)>>)}}

InitJournal ==
    /\ store = EmptyStore("null")
    /\ prev = None
    /\ last = None
    /\ procs = IdleProcs

GetDailyJournalOp ==
    \E w1 \in TodayWires, w2 \in JournalWires, w3 \in JournalWires :
        /\ last = None
        /\ last' = [op |-> "GetDailyJournal", n |-> 1,
                    w1 |-> w1, w2 |-> w2, w3 |-> w3,
                    v |-> GetDailyJournal(
                              Ctx(store, <<Fault(w1), Fault(w2), Fault(w3)>>,
                                  <<>>)).v,
                    err |-> GetDailyJournal(
                                Ctx(store, <<Fault(w1), Fault(w2), Fault(w3)>>,
                                    <<>>)).err,
                    log |-> GetDailyJournal(
                                Ctx(store, <<Fault(w1), Fault(w2), Fault(w3)>>,
                                    <<>>)).c.log]
        /\ UNCHANGED <<store, prev, procs>>

NextJournal == GetDailyJournalOp

SpecJournal == InitJournal /\ [][NextJournal]_vars

\* a JSON object: what a page is on the wire
IsObject(body) == body.t \in {"obj", "badobj", "errobj"}

\* the primary call of rec yielded a page
PrimaryYields(rec) == Call(rec.w1).err = NoErr /\ IsObject(Call(rec.w1).body)

\* the fallback query of rec, its calls answered with w2 and w3, yielded a
\* page: the first element of its results is an object
FallbackYields(rec) ==
    /\ Query(Ctx(EmptyStore("null"), <<Fault(rec.w2), Fault(rec.w3)>>, <<>>),
             JournalQuery).err = NoErr
    /\ Query(Ctx(EmptyStore("null"), <<Fault(rec.w2), Fault(rec.w3)>>, <<>>),
             JournalQuery).results.t = "list"
    /\ Query(Ctx(EmptyStore("null"), <<Fault(rec.w2), Fault(rec.w3)>>, <<>>),
             JournalQuery).results.items # <<>>
    /\ IsObject(Query(Ctx(EmptyStore("null"), <<Fault(rec.w2), Fault(rec.w3)>>,
                          <<>>),
                      JournalQuery).results.items[1])

\* C27 (as claimed): GetDailyJournal never returns an error: when the
\* getTodayJournalPage call fails or returns null/[] it runs the journal-day
\* query as fallback, and it returns (nil, no error) when neither the
\* primary call nor the fallback yields a page.
C27_JournalNeverFails ==
    last.op = "GetDailyJournal"
    => /\ last.err = NoErr
       /\ (\/ Call(last.w1).err # NoErr
           \/ IsNullText(Call(last.w1).body)
           \/ IsEmptyArrText(Call(last.w1).body))
          => /\ Len(last.log) >= 2
             /\ last.log[2].m = "logseq.DB.q"
             /\ last.log[2].a = <<JournalQuery>>
       /\ (~PrimaryYields(last) /\ ~FallbackYields(last))
          => last.v.kind = "nil"

-----------------------------------------------------------------------------
(* Claims about the walk and the rewriting of EnsureLinkedPages, checked   *)
(* under SpecLinks.                                                        *)

\* the link names EnsureLinkedPages extracts from its input: those of the
\* content and those of the string property values
InputLinks(rec) ==
    Range(extractLinks(rec.content))
    \cup UNION {Range(extractLinks(StringOf(rec.properties[k]))) :
                    k \in {j \in DOMAIN rec.properties :
                               IsString(rec.properties[j])}}

\* the page lookups and creations of a log
PageCalls(log) ==
    {i \in DOMAIN log : log[i].m \in {"logseq.Editor.getPage",
                                      "logseq.Editor.createPage"}}

\* the pages whose reference the run put into the content or into a
\* property value
Substituted(rec, st) ==
    {q \in st.pages :
        \/ /\ Contains(rec.out, RefTo(q.uuid))
           /\ ~Contains(rec.content, RefTo(q.uuid))
        \/ \E k \in DOMAIN rec.outprops :
              /\ IsString(rec.outprops[k])
              /\ Contains(StringOf(rec.outprops[k]), RefTo(q.uuid))
              /\ ~Contains(StringOf(rec.properties[k]), RefTo(q.uuid))}

\* C28: for every hierarchical link L and every i, the i-th lookup or
\* creation of the materialization walk targets exactly the name formed by
\* joining the first i "/"-separated segments of L, also when L has empty
\* segments, so the identifier substituted for [[L]] is the identifier of
\* the page whose name is exactly L: every page call of a run names a
\* prefix of a link of the input, and every page whose reference the run
\* substituted is named by a hierarchical link of the input.
C28_WalkTargetsPrefixes ==
    last.op = "EnsureLinkedPages"
    => /\ \A i \in PageCalls(last.log) :
             last.log[i].a[1] \in UNION {PrefixNames(l) : l \in InputLinks(last)}
       /\ \A q \in Substituted(last, store) :
             /\ q.name \in InputLinks(last)
             /\ IsHierarchical(q.name)

\* the link names still written in what the run returned: those of the
\* content and those of the string property values
OutputLinks(rec) ==
    Range(extractLinks(rec.out))
    \cup UNION {Range(extractLinks(StringOf(rec.outprops[k]))) :
                    k \in {j \in DOMAIN rec.outprops :
                               IsString(rec.outprops[j])}}

\* C29: every hierarchical named link that the extractor finds in the
\* content or in a string property value (also one written with whitespace
\* inside the brackets, such as [[ A/B ]]) and whose materialization
\* yields a non-empty leaf identifier is rewritten: after EnsureLinkedPages
\* no occurrence of that named link remains in the returned content or in
\* any string property value.
C29_EveryOccurrenceRewritten ==
    last.op = "EnsureLinkedPages"
    => \A l \in InputLinks(last) :
          (IsHierarchical(l) /\ LeafObtained(last, l))
          => l \notin OutputLinks(last)

\* the path the walk has built after the first i parts
RECURSIVE WalkPath(_, _)
WalkPath(parts, i) ==
    IF i = 0 THEN <<>> ELSE NextPath(WalkPath(parts, i - 1), parts[i])

\* the path of the leaf level of the walk of a link
LeafPath(link) == WalkPath(Split(link), Len(Split(link)))

\* the number of places of s from i on where t starts
RECURSIVE CountFrom(_, _, _)
CountFrom(s, i, t) ==
    IF i > Len(s) THEN 0
    ELSE (IF HasPrefixAt(s, i, t) THEN 1 ELSE 0) + CountFrom(s, i + 1, t)

\* every occurrence of the literal [[link]] of the input is in the output:
\* in the content and in every property value
Untouched(rec, link) ==
    /\ CountFrom(rec.out, 1, LinkTo(link))
          = CountFrom(rec.content, 1, LinkTo(link))
    /\ DOMAIN rec.outprops = DOMAIN rec.properties
    /\ \A k \in DOMAIN rec.properties :
          CountFrom(StringOf(rec.outprops[k]), 1, LinkTo(link))
             = CountFrom(StringOf(rec.properties[k]), 1, LinkTo(link))

\* C30: EnsureLinkedPages rewrites a hierarchical link only when a
\* non-empty identifier was obtained for its leaf level, by lookup or by
\* creation; when the leaf lookup and creation both fail or yield an empty
\* identifier, every occurrence of the literal link is left untouched in
\* the content and in the properties, and no empty reference is written.
C30_RewriteOnlyWithLeafId ==
    last.op = "EnsureLinkedPages"
    => /\ \A l \in InputLinks(last) :
             (IsHierarchical(l) /\ ~LeafObtained(last, LeafPath(l)))
             => Untouched(last, l)
       /\ ~Contains(last.out, RefTo(<<>>))
       /\ \A k \in DOMAIN last.outprops :
             ~Contains(StringOf(last.outprops[k]), RefTo(<<>>))

\* a run on "[[A/B]]!" in which the lookups and the creation of the leaf
\* A/B all failed: the content came back as it was
C30_Witness ==
    /\ last.op = "EnsureLinkedPages"
    /\ last.content = LinkTo(nAB) \o <<"!">>
    /\ last.properties = NoProps
    /\ \E i \in DOMAIN last.log :
          /\ last.log[i].m = "logseq.Editor.createPage"
          /\ last.log[i].a = <<nAB>>
          /\ ~last.log[i].ok
    /\ \A i \in DOMAIN last.log : last.log[i].a = <<nAB>> => ~last.log[i].ok
    /\ last.out = last.content

-----------------------------------------------------------------------------
(* SpecWrites: one write operation of the client whose content links to    *)
(* A/B and to C, on a store that holds the page Root and a block under it  *)
(* and none of the linked pages, over a network that may leave any of the  *)
(* first MaxWriteScript calls of the operation unanswered.                 *)

MaxWriteScript == 6

WriteStore == WithBlock(WithPages(EmptyStore("null"), <<nRoot>>), PageUuid(1), cX)

cABC == LinkTo(nAB) \o <<" ">> \o LinkTo(nC)

\* a tree of three nodes: a block that links to A/B, with a child that
\* links to C, followed by a block that links to Ns/Child
WriteBatch ==
    <<BlockContent(LinkTo(nAB), NoProps,
                   <<BlockContent(LinkTo(nC), NoProps, <<>>)>>),
      BlockContent(LinkTo(nNsChild), NoProps, <<>>)>>

InitWrites ==
    /\ store = WriteStore
    /\ prev = None
    /\ last = None
    /\ procs = IdleProcs

\* the record of a write operation op that ended with r; write is the
\* method of its remote write call, links the link names of its input
Written(op, write, links, script, r) ==
    [op |-> op, n |-> 1, write |-> write, script |-> script,
     links |-> links, before |-> store, err |-> r.err, log |-> r.c.log]

WriteInsertBlock ==
    \E script \in Scripts(LinkFaults, MaxWriteScript) :
        LET r == InsertBlock(Ctx(store, script, <<>>), PageUuid(1), cABC, NoProps)
        IN /\ last = None
           /\ last' = Written("InsertBlock", "logseq.Editor.insertBlock",
                              {nAB, nC}, script, r)
           /\ store' = r.c.store
           /\ UNCHANGED <<prev, procs>>

WriteInsertBatchBlock ==
    \E script \in Scripts(LinkFaults, MaxWriteScript) :
        LET r == InsertBatchBlock(Ctx(store, script, <<>>), PageUuid(1), WriteBatch)
        IN /\ last = None
           /\ last' = Written("InsertBatchBlock",
                              "logseq.Editor.insertBatchBlock",
                              {nAB, nC, nNsChild}, script, r)
           /\ store' = r.c.store
           /\ UNCHANGED <<prev, procs>>

WriteUpdateBlock ==
    \E script \in Scripts(LinkFaults, MaxWriteScript) :
        LET r == UpdateBlock(Ctx(store, script, <<>>), BlockUuid(2), cABC, NoProps)
        IN /\ last = None
           /\ last' = Written("UpdateBlock", "logseq.Editor.updateBlock",
                              {nAB, nC}, script, r)
           /\ store' = r.c.store
           /\ UNCHANGED <<prev, procs>>

WriteAppendBlockInPage ==
    \E script \in Scripts(LinkFaults, MaxWriteScript) :
        LET r == AppendBlockInPage(Ctx(store, script, <<>>), nRoot, cABC)
        IN /\ last = None
           /\ last' = Written("AppendBlockInPage",
                              "logseq.Editor.appendBlockInPage",
                              {nAB, nC}, script, r)
           /\ store' = r.c.store
           /\ UNCHANGED <<prev, procs>>

NextWrites ==
    \/ WriteInsertBlock \/ WriteInsertBatchBlock \/ WriteUpdateBlock
    \/ WriteAppendBlockInPage

SpecWrites == InitWrites /\ [][NextWrites]_vars

WriteOps == {"InsertBlock", "InsertBatchBlock", "UpdateBlock", "AppendBlockInPage"}

\* a lookup of the page named x was issued
Attempted(log, x) ==
    \E i \in CallsOf(log, "logseq.Editor.getPage") : log[i].a = <<x>>

\* C31: materialization is best-effort: when the creation of a level of a
\* link fails, EnsureLinkedPages still attempts every deeper level and every
\* remaining link, returns, and the enclosing write operation (InsertBlock,
\* InsertBatchBlock, UpdateBlock, AppendBlockInPage) still issues its remote
\* write call, after the failed creation.
C31_BestEffortMaterialization ==
    last.op \in WriteOps
    => \A i \in CallsOf(last.log, "logseq.Editor.createPage") :
          ~last.log[i].ok
          => /\ \A l \in last.links : \A x \in PrefixNames(l) :
                   Attempted(last.log, x)
             /\ \E j \in CallsOf(last.log, last.write) : j > i

\* the creation of the ancestor A failed, and the run went on to look up
\* A/B and C and to issue the write call
C31_Witness ==
    /\ last.op \in WriteOps
    /\ \E i \in CallsOf(last.log, "logseq.Editor.createPage") :
          /\ last.log[i].a = <<nA>>
          /\ ~last.log[i].ok
          /\ \E j, k, w \in DOMAIN last.log :
                /\ i < j /\ j < k /\ k < w
                /\ last.log[j].m = "logseq.Editor.getPage"
                /\ last.log[j].a = <<nAB>>
                /\ last.log[k].m = "logseq.Editor.getPage"
                /\ last.log[k].a = <<nC>>
                /\ last.log[w].m = last.write

-----------------------------------------------------------------------------
(* Claims about the failures of CreatePage and UpdatePage, checked under   *)
(* SpecFacade.                                                             *)

\* the i-th remote call of the run was answered, by the script, with a
\* success that decodes into a page without identifier
EmptyIdAnswer(rec, i) ==
    /\ i <= Len(rec.script)
    /\ rec.script[i].f = "wire"
    /\ rec.log[i].ok
    /\ UnmarshalEntity(rec.script[i].w.body).ok
    /\ UnmarshalEntity(rec.script[i].w.body).v.uuid = <<>>

\* C32: CreatePage treats a successful createPage response that carries a
\* missing or empty identifier as a failure: it returns an error and no
\* page, and issues no property upsert.
C32_EmptyIdentifierIsFailure ==
    last.op = "CreatePage"
    => \A i \in CallsOf(last.log, "logseq.Editor.createPage") :
          EmptyIdAnswer(last, i)
          => /\ last.err = FailedToCreate(last.name)
             /\ last.page.nil
             /\ CallsOf(last.log, "logseq.Editor.upsertBlockProperty") = {}

\* CreatePage of the absent page C with a property, whose createPage call
\* was answered with an object without identifier, ended with the error
\* after two calls
C32_Witness ==
    /\ last.op = "CreatePage"
    /\ last.name = nC
    /\ DOMAIN last.given # {}
    /\ last.script = <<Faithful, Fault(Ok200(JObj(<<>>, <<>>, <<>>)))>>
    /\ Len(last.log) = 2
    /\ last.log[2].m = "logseq.Editor.createPage"
    /\ last.err = FailedToCreate(nC)
    /\ last.page.nil

\* the calls of a method that failed
FailedCalls(log, m) == {i \in CallsOf(log, m) : ~log[i].ok}

\* C33: when a per-key property upsert fails during CreatePage(name,
\* non-empty properties), on the existing-page path or on the
\* newly-created-page path, CreatePage reports the failure to its caller as
\* an error instead of returning a page as success.
C33_UpsertFailureReported ==
    (/\ last.op = "CreatePage"
     /\ DOMAIN last.given # {}
     /\ FailedCalls(last.log, "logseq.Editor.upsertBlockProperty") # {})
    => last.err # NoErr

Upserts(log) == CallsOf(log, "logseq.Editor.upsertBlockProperty")

\* the key of the upsert call i of a log
UpsertKey(log, i) == log[i].a[2][1]

\* C34: UpdatePage applies properties one key at a time with one
\* upsertBlockProperty call per key; when the call for some key fails it
\* returns an error immediately, the keys already upserted stay applied in
\* the store, no further key is attempted and the final page lookup is not
\* issued.
C34_UpdatePagePartial ==
    last.op = "UpdatePage"
    => /\ \A i, j \in Upserts(last.log) :
             /\ UpsertKey(last.log, i) \in DOMAIN last.given
             /\ DOMAIN last.log[i].p = {UpsertKey(last.log, i)}
             /\ i # j => UpsertKey(last.log, i) # UpsertKey(last.log, j)
       /\ FailedCalls(last.log, "logseq.Editor.upsertBlockProperty") = {}
          => {UpsertKey(last.log, i) : i \in Upserts(last.log)}
                = DOMAIN last.given
       /\ \A i \in FailedCalls(last.log, "logseq.Editor.upsertBlockProperty") :
             /\ i = Len(last.log)
             /\ last.err # NoErr
             /\ last.page.nil
             /\ \A j \in Upserts(last.log) :
                   (j < i /\ Served(last, j))
                   => <<last.uuid, UpsertKey(last.log, j),
                        last.given[UpsertKey(last.log, j)]>> \in store.props

\* UpdatePage of page A with two properties whose second upsert got no
\* answer: two calls, an error, and the first key applied and not the second
C34_Witness ==
    /\ last.op = "UpdatePage"
    /\ last.uuid = uPage
    /\ last.given = TwoProps
    /\ last.script = <<Faithful, Fault(Down)>>
    /\ Len(last.log) = 2
    /\ last.err # NoErr
    /\ \E k \in {"k1", "k2"} :
          /\ UpsertKey(last.log, 1) = k
          /\ <<uPage, k, SVal(cX)>> \in store.props
          /\ \A t \in store.props : t[2] = k

-----------------------------------------------------------------------------
(* A claim about the creation race, checked under SpecRace.                *)

\* the createPage calls invocation i has issued for name so far
CreatesOf(i, name) ==
    IF procs[i].pc = "idle" THEN {}
    ELSE {k \in CallsOf(procs[i].log, "logseq.Editor.createPage") :
              procs[i].log[k].a = <<name>>}

\* C35: the creation race is bounded: each CreatePage invocation issues at
\* most one logseq.Editor.createPage call, so the two concurrent upserts of
\* the same absent name issue at most two create calls for it.
C35_RaceBounded ==
    /\ \A i \in {1, 2} :
          procs[i].pc # "idle"
          => Cardinality(CallsOf(procs[i].log, "logseq.Editor.createPage")) <= 1
    /\ \A name \in RaceNames :
          Cardinality(CreatesOf(1, name)) + Cardinality(CreatesOf(2, name)) <= 2

\* both invocations ran for the name A/B, absent from the store when each
\* looked it up, and each has issued its one createPage call
C35_Witness ==
    /\ \A i \in {1, 2} :
          /\ procs[i].pc = "done"
          /\ procs[i].name = nAB
          /\ procs[i].lookupErr = NoErr
          /\ procs[i].existing.nil
          /\ Cardinality(CreatesOf(i, nAB)) = 1

-----------------------------------------------------------------------------
(* A claim about the batch insertion, checked under SpecWrites.            *)

\* the first lookup of the page named x in a log
FirstLookup(log, x) ==
    CHOOSE i \in CallsOf(log, "logseq.Editor.getPage") :
        /\ log[i].a = <<x>>
        /\ \A j \in CallsOf(log, "logseq.Editor.getPage") :
              log[j].a = <<x>> => i <= j

\* what the write call carries for a block whose content is the link to
\* name: the reference to the page when an identifier was obtained for it
\* and the name is hierarchical, else the link as written
Carried(rec, st, name) ==
    IF IsHierarchical(name) /\ LeafObtained(rec, name)
    THEN RefTo((CHOOSE q \in PageNamed(st, name) : TRUE).uuid)
    ELSE LinkTo(name)

\* C36: InsertBatchBlock runs link synchronization on every node of the
\* tree, depth-first with each parent before its children, finishes all of
\* it before issuing the remote write, and then issues exactly one
\* insertBatchBlock call carrying the rewritten contents of all nodes.
C36_BatchScannedThenWritten ==
    last.op = "InsertBatchBlock"
    => /\ \A x \in {nAB, nC, nNsChild} : Attempted(last.log, x)
       /\ FirstLookup(last.log, nAB) < FirstLookup(last.log, nC)
       /\ FirstLookup(last.log, nC) < FirstLookup(last.log, nNsChild)
       /\ CallsOf(last.log, "logseq.Editor.insertBatchBlock") = {Len(last.log)}
       /\ last.log[Len(last.log)].a
             = <<PageUuid(1), Carried(last, store, nAB), LinkTo(nC),
                 Carried(last, store, nNsChild)>>

\* a batch insertion over a network that answered every call: the three
\* nodes were scanned in order and the one write call carries the
\* references to A/B and Ns/Child and the link to C
C36_Witness ==
    /\ last.op = "InsertBatchBlock"
    /\ last.script = <<>>
    /\ \E ab \in PageNamed(store, nAB), ns \in PageNamed(store, nNsChild) :
          last.log[Len(last.log)].a
             = <<PageUuid(1), RefTo(ab.uuid), LinkTo(nC), RefTo(ns.uuid)>>
    /\ PageNamed(store, nC) # {}

-----------------------------------------------------------------------------
(* A claim about the fallback of Query, checked under SpecUnit.            *)

\* the answer w was a success with an empty result, [] or null
EmptySuccess(w) ==
    /\ Call(w).err = NoErr
    /\ IsEmptyArrText(Call(w).body) \/ IsNullText(Call(w).body)

\* C37: Query issues the secondary datascriptQuery call if and only if the
\* primary logseq.DB.q call succeeded with an empty result ([] or null); a
\* failed primary call returns its error without any secondary call; a
\* secondary call that fails or is itself empty is ignored and the primary
\* (empty) result is returned without error.
C37_QueryFallback ==
    last.op = "Query"
    => /\ last.log[1].m = "logseq.DB.q"
       /\ CallsOf(last.log, "logseq.DB.datascriptQuery")
             = IF EmptySuccess(last.w1) THEN {2} ELSE {}
       /\ Len(last.log) = IF EmptySuccess(last.w1) THEN 2 ELSE 1
       /\ Call(last.w1).err # NoErr
          => /\ last.err = Call(last.w1).err
             /\ last.results = JNull
       /\ (/\ EmptySuccess(last.w1)
           /\ Call(last.w2).err # NoErr \/ EmptySuccess(last.w2))
          => /\ last.err = NoErr
             /\ last.results = Call(last.w1).body

\* a query whose primary call answered [] and whose secondary call got no
\* answer returned the empty list and no error, after two calls
C37_Witness ==
    /\ last.op = "Query"
    /\ last.w1 = Wire(TRUE, 200, JList(<<>>))
    /\ last.w2 = Down
    /\ Len(last.log) = 2
    /\ ~last.log[2].ok
    /\ last.err = NoErr
    /\ last.results = JList(<<>>)

-----------------------------------------------------------------------------
(* A claim about the handlers that resolve a page first, checked under    *)
(* SpecTools.                                                              *)

\* the first call of the run, a lookup, failed or found no page: it was
\* answered with an error, with null or [], or with a body that is no page
NoPageFound(rec) ==
    \/ ~rec.log[1].ok
    \/ IsNullText(AnswerTo(rec, 1))
    \/ IsEmptyArrText(AnswerTo(rec, 1))
    \/ ~UnmarshalEntity(AnswerTo(rec, 1)).ok

\* C38: the update_page/update_entity and rename_page handlers resolve the
\* target by name-or-identifier first; when the lookup fails or finds no
\* page they return an error result and issue no upsertBlockProperty,
\* createPage or renamePage call.
C38_ResolveFirst ==
    (/\ ToolCall(last)
     /\ last.op \in {"update_page", "update_entity", "rename_page"}
     /\ last.log # <<>>)
    => /\ last.log[1].m = "logseq.Editor.getPage"
       /\ last.log[1].a = <<last.args.uuid>>
       /\ NoPageFound(last)
          => /\ last.IsError
             /\ \A i \in DOMAIN last.log :
                   last.log[i].m \notin {"logseq.Editor.upsertBlockProperty",
                                         "logseq.Editor.createPage",
                                         "logseq.Editor.renamePage"}

\* rename_page for an identifier the store does not hold: one lookup,
\* answered null by the store, and an error result
C38_Witness ==
    /\ ToolCall(last)
    /\ last.op = "rename_page"
    /\ last.args.uuid = uNone
    /\ last.args.new_name = nC
    /\ last.script = <<>>
    /\ Len(last.log) = 1
    /\ last.log[1].m = "logseq.Editor.getPage"
    /\ last.IsError

-----------------------------------------------------------------------------
(* A claim about the number of remote calls of a run, checked under        *)
(* SpecLinks.                                                              *)

\* the prefix levels of a set of links: the segments of each, summed
RECURSIVE Levels(_)
Levels(links) ==
    IF links = {} THEN 0
    ELSE Len(Split(CHOOSE l \in links : TRUE))
         + Levels(links \ {CHOOSE l \in links : TRUE})

\* the reference checks of a log
BlockCalls(log) == {i \in DOMAIN log : log[i].m = "logseq.Editor.getBlock"}

\* the string-valued keys of the properties a run returned
StringKeys(rec) ==
    {k \in DOMAIN rec.outprops : IsString(rec.outprops[k])}

\* the distinct direct references of what a run returned
DistinctRefs(rec) ==
    Range(extractBlockRefs(rec.out))
    \cup UNION {Range(extractBlockRefs(StringOf(rec.outprops[k]))) :
                    k \in StringKeys(rec)}

\* the direct references of what a run returned, counted once in each text
\* (the content, each string value) that holds them
RECURSIVE RefsPerText(_, _)
RefsPerText(rec, ks) ==
    IF ks = {} THEN Len(extractBlockRefs(rec.out))
    ELSE Len(extractBlockRefs(
                 StringOf(rec.outprops[CHOOSE k \in ks : TRUE])))
         + RefsPerText(rec, ks \ {CHOOSE k \in ks : TRUE})

\* a run of EnsureLinkedPages that has returned
LinksRun(rec) == rec # None /\ rec.op = "EnsureLinkedPages"

====
